---- MODULE Spec2Model ----
(***************************************************************************)
(* Model of the CV-generation route handler of SkillDB                     *)
(* (src/skilldb/src/app/api/generate-cv/route.ts, the second GET, lines    *)
(* 38-399) and of its two tenure helpers calculateDuration and             *)
(* calculateDurationForCompany.                                            *)
(*                                                                         *)
(* Nine specifications share the variables:                                *)
(*   Spec           one request served by GET, step by step;               *)
(*   SpecMalformed  one request for a user whose rows hold dates that Date *)
(*                  cannot parse;                                          *)
(*   SpecPair       two requests in flight, interleaved at their awaits;   *)
(*   SpecTenure     calculateDuration applied to bounded inputs;           *)
(*   SpecCompany    calculateDurationForCompany applied to bounded inputs; *)
(*   SpecExperiences  one request of a user with experiences;              *)
(*   SpecActivities   one request of a user with skills, certifications    *)
(*                  and trainings;                                         *)
(*   SpecLive       one request under weak fairness of the handler's steps;*)
(*   SpecAuth       AuthProvider (src/skilldb/src/context/AuthContext.tsx, *)
(*                  lines 23-99): its effect, its listener and the calls   *)
(*                  of fetchUser in flight.                                *)
(***************************************************************************)
EXTENDS Integers, Sequences, FiniteSets, TLC

VARIABLES
    tz,                 \* UTC offset, in hours, of the server's local time
    now,                \* the time value new Date() yields during the run
    store,              \* the revision of each table of the store
    other,              \* the request suspended at an await, if there is one
    fnArgs,             \* arguments of the helper under test
    fnRet,              \* what the helper returned
    pc,                 \* position of the request in GET
    userId,             \* the userId query parameter
    calls,              \* store reads and renderer calls issued, in order
    userData,           \* data of the users read
    experiencesData,    \* data of the experiences read
    userSkillsData,     \* data of the user_skills read
    certificationsData, \* data of the certifications read
    locals,             \* the values computed by section B of GET
    template,           \* what GET found at templatePath
    dataForTemplate,    \* the view model handed to doc.render
    failure,            \* the step that failed and the error it met
    renderError,        \* the error doc.render threw, caught at line 369
    response,           \* the HTTP response of the request
    authContext,        \* the value AuthProvider provides: user, loading, error, isAdmin
    session,            \* the session the auth client holds
    subscribed,         \* whether AuthProvider's listener is subscribed
    fetchUsers,         \* the calls of fetchUser, each with the await it is at
    lastEvent           \* the last auth-state-change event the listener handled

vars == <<tz, now, store, other, fnArgs, fnRet, pc, userId, calls, userData, experiencesData,
          userSkillsData, certificationsData, locals, template, dataForTemplate,
          failure, renderError, response, authContext, session, subscribed, fetchUsers,
          lastEvent>>

\* what a step of the running request finds around it: the clock, the store
\* and the other request in flight
envVars == <<tz, now, store, other>>
fnVars == <<fnArgs, fnRet>>
reqVars == <<pc, userId, calls, userData, experiencesData, userSkillsData,
             certificationsData, locals, template, dataForTemplate, failure,
             renderError, response>>
\* the state of AuthProvider and of the auth client it listens to
authVars == <<authContext, session, subscribed, fetchUsers, lastEvent>>

(***************************************************************************)
(* Bounds of the model.                                                    *)
(***************************************************************************)
MaxCompanyExps == 2     \* experiences passed to calculateDurationForCompany
MaxExperiences == 2     \* rows of the experiences read
MaxUserSkills == 2      \* rows of the user_skills read
MaxCertifications == 1  \* rows of the certifications read
MaxDiagnostics == 2     \* entries of a template error's properties.errors

(***************************************************************************)
(* Strings that the code inspects character by character are sequences of  *)
(* one-character strings; the others are TLA+ strings.                     *)
(***************************************************************************)
LowerOf == ("A" :> "a") @@ ("C" :> "c") @@ ("D" :> "d") @@ ("T" :> "t") @@ ("X" :> "x")

toLowerCase(s) == [i \in 1..Len(s) |-> IF s[i] \in DOMAIN LowerOf THEN LowerOf[s[i]] ELSE s[i]]

(***************************************************************************)
(* Dates.  A date string is a record: kind "null" (null, undefined or ""), *)
(* "date" (YYYY-MM-DD, parsed as UTC midnight), "iso" (the output of       *)
(* toISOString) or "bad" (text Date cannot parse).  A time value stands    *)
(* for Date.getTime(): hours counted on a grid of 31-day months, which     *)
(* orders instants as milliseconds do; NaN is the time of an Invalid Date. *)
(***************************************************************************)
NaN == -1

NullStr == [kind |-> "null", y |-> 0, m |-> 0, d |-> 0, h |-> 0]
BadStr == [kind |-> "bad", y |-> 0, m |-> 0, d |-> 0, h |-> 0]
DateStr(y, m, d) == [kind |-> "date", y |-> y, m |-> m, d |-> d, h |-> 0]

Truthy(str) == str.kind # "null"

TimeOf(y, m, d, h) == (((y * 12 + (m - 1)) * 31 + (d - 1)) * 24) + h

UTCFields(t) ==
    LET days == t \div 24
        months == days \div 31
    IN  [y |-> months \div 12, m |-> (months % 12) + 1, d |-> (days % 31) + 1, h |-> t % 24]

\* new Date(str).getTime(); new Date(null) is the epoch
NewDate(str) ==
    CASE str.kind = "null" -> TimeOf(1970, 1, 1, 0)
      [] str.kind = "bad" -> NaN
      [] OTHER -> TimeOf(str.y, str.m, str.d, str.h)

\* Date.prototype.toISOString of a valid date (it throws on an Invalid Date)
toISOString(t) ==
    LET f == UTCFields(t)
    IN  [kind |-> "iso", y |-> f.y, m |-> f.m, d |-> f.d, h |-> f.h]

IsLeap(y) == (y % 4 = 0 /\ y % 100 # 0) \/ y % 400 = 0

DaysInMonth(y, m) ==
    IF m = 2 THEN (IF IsLeap(y) THEN 29 ELSE 28)
    ELSE IF m \in {4, 6, 9, 11} THEN 30 ELSE 31

\* The calendar fields of t in the server's local time (offset tz hours).
LocalFields(t) ==
    LET f == UTCFields(t)
        hh == f.h + tz
    IN  IF hh < 0 THEN
            IF f.d > 1 THEN [y |-> f.y, m |-> f.m, d |-> f.d - 1, h |-> hh + 24]
            ELSE IF f.m > 1
                 THEN [y |-> f.y, m |-> f.m - 1, d |-> DaysInMonth(f.y, f.m - 1), h |-> hh + 24]
                 ELSE [y |-> f.y - 1, m |-> 12, d |-> 31, h |-> hh + 24]
        ELSE IF hh >= 24 THEN
            IF f.d < DaysInMonth(f.y, f.m) THEN [y |-> f.y, m |-> f.m, d |-> f.d + 1, h |-> hh - 24]
            ELSE IF f.m < 12
                 THEN [y |-> f.y, m |-> f.m + 1, d |-> 1, h |-> hh - 24]
                 ELSE [y |-> f.y + 1, m |-> 1, d |-> 1, h |-> hh - 24]
        ELSE [y |-> f.y, m |-> f.m, d |-> f.d, h |-> hh]

getFullYear(t) == LocalFields(t).y
getMonth(t) == LocalFields(t).m - 1

(***************************************************************************)
(* A const of the code holds a value computed once.  Apply and Apply2 give *)
(* Op the values of v and w, evaluated once however often Op reads them.   *)
(***************************************************************************)
Apply(Op(_), v) == CHOOSE r \in {Op(x) : x \in {v}} : TRUE
Apply2(Op(_, _), v, w) == CHOOSE r \in {Op(x, y) : x \in {v}, y \in {w}} : TRUE

(***************************************************************************)
(* calculateDuration, lines 53-73.                                         *)
(***************************************************************************)
\* A plausible slip: whole months elapsed, borrowing a month when the day
\* of the end date is before the day of the start date.
DurationSpanByDays(start, end) ==
    LET raw == (getFullYear(end) - getFullYear(start)) * 12
               + (getMonth(end) - getMonth(start))
               - (IF LocalFields(end).d < LocalFields(start).d THEN 1 ELSE 0)
    IN  [nan |-> FALSE, years |-> raw \div 12, months |-> raw % 12]

\* lines 58-64: years and months between two time values; nan when either
\* date is invalid (every comparison with NaN is then false)
DurationSpan(start, end) ==
    IF start = NaN \/ end = NaN THEN [nan |-> TRUE, years |-> 0, months |-> 0]
    ELSE LET years == getFullYear(end) - getFullYear(start)
             months == getMonth(end) - getMonth(start)
         IN  IF months < 0
             THEN [nan |-> FALSE, years |-> years - 1, months |-> months + 12]
             ELSE [nan |-> FALSE, years |-> years, months |-> months]

\* lines 66-72
DurationText(span) ==
    LET yearPart == IF ~span.nan /\ span.years > 0
                    THEN ToString(span.years) \o " an" \o (IF span.years > 1 THEN "s" ELSE "")
                    ELSE ""
        result == IF ~span.nan /\ span.months > 0
                  THEN yearPart \o (IF yearPart # "" THEN " " ELSE "") \o ToString(span.months) \o " mois"
                  ELSE yearPart
    IN  IF result # "" THEN result ELSE "Moins d'un mois"

calculateDuration(startDateStr, endDateStr) ==
    IF ~Truthy(startDateStr) THEN ""
    ELSE Apply2(LAMBDA start, end : DurationText(DurationSpan(start, end)),
                NewDate(startDateStr),
                IF Truthy(endDateStr) THEN NewDate(endDateStr) ELSE now)

(***************************************************************************)
(* calculateDurationForCompany, lines 76-85.  A helper that can throw      *)
(* returns [threw, text].                                                  *)
(***************************************************************************)
\* A plausible slip: the start of the first experience.
MathMinFirst(ts) == ts[1]

RECURSIVE MathMin(_)
\* Math.min.apply(null, ts), line 82: NaN as soon as one argument is NaN
MathMin(ts) ==
    IF Len(ts) = 1 THEN ts[1]
    ELSE Apply(LAMBDA rest : IF ts[1] = NaN \/ rest = NaN THEN NaN
                             ELSE IF ts[1] < rest THEN ts[1] ELSE rest,
               MathMin(Tail(ts)))

\* A plausible slip: the end of the last matching experience.
MathMaxLast(ts) == ts[Len(ts)]

RECURSIVE MathMax(_)
\* Math.max.apply(null, ts), line 83
MathMax(ts) ==
    IF Len(ts) = 1 THEN ts[1]
    ELSE Apply(LAMBDA rest : IF ts[1] = NaN \/ rest = NaN THEN NaN
                             ELSE IF ts[1] > rest THEN ts[1] ELSE rest,
               MathMax(Tail(ts)))

\* A plausible slip: a prefix test instead of equality.
CompanyStartsWith(exp, companyName) ==
    /\ exp.company # <<>>
    /\ Len(exp.company) >= Len(companyName)
    /\ SubSeq(toLowerCase(exp.company), 1, Len(companyName)) = toLowerCase(companyName)

\* the filter predicate of line 77 (an empty or null company is falsy)
CompanyMatches(exp, companyName) ==
    /\ exp.company # <<>>
    /\ toLowerCase(exp.company) = toLowerCase(companyName)

\* exp.enddate ? new Date(exp.enddate) : new Date(), lines 81 and 197
EffectiveEnd(exp) == IF Truthy(exp.enddate) THEN NewDate(exp.enddate) ELSE now

calculateDurationForCompany(experiences, companyName) ==
    LET companyExperiences == SelectSeq(experiences, LAMBDA exp : CompanyMatches(exp, companyName))
    IN  IF Len(companyExperiences) = 0 THEN [threw |-> FALSE, text |-> "N/A"]
        ELSE LET allStartDates == [i \in 1..Len(companyExperiences) |->
                                      NewDate(companyExperiences[i].startdate)]
                 allEndDates == [i \in 1..Len(companyExperiences) |->
                                      EffectiveEnd(companyExperiences[i])]
             IN  Apply2(LAMBDA minStartDate, maxEndDate :
                            IF minStartDate = NaN \/ maxEndDate = NaN
                            THEN [threw |-> TRUE, text |-> "Invalid time value"]
                            ELSE [threw |-> FALSE,
                                  text |-> calculateDuration(toISOString(minStartDate),
                                                             toISOString(maxEndDate))],
                        MathMin(allStartDates), MathMax(allEndDates))

(***************************************************************************)
(* Environment: the server's time zone and clock.                          *)
(***************************************************************************)
DXC == <<"D", "X", "C">>
dxc == <<"d", "x", "c">>
Acme == <<"A", "c", "m", "e">>
DXCT == <<"D", "X", "C", "T">>

SeqsUpTo(S, n) == UNION {[1..k -> S] : k \in 0..n}

TZOffsets == {-5, 0, 2}
RequestClock == TimeOf(2024, 6, 30, 23)
NowPool == {RequestClock, TimeOf(2024, 3, 15, 10)}

NullId == "<null>"

\* status 0: no response sent yet
NoResponse ==
    [status |-> 0, error |-> "", details |-> "absent", message |-> "", list |-> <<>>]

NoFailure == [step |-> "", message |-> ""]
Failed(step, message) == [step |-> step, message |-> message]

NoRenderError == [threw |-> FALSE, message |-> "", hasErrors |-> FALSE, errors |-> <<>>]

IdleRequest ==
    /\ pc = "idle"
    /\ userId = NullId
    /\ calls = <<>>
    /\ userData = [found |-> FALSE]
    /\ experiencesData = <<>>
    /\ userSkillsData = <<>>
    /\ certificationsData = <<>>
    /\ locals = [done |-> FALSE]
    /\ template = "unknown"
    /\ dataForTemplate = [built |-> FALSE]
    /\ failure = NoFailure
    /\ renderError = NoRenderError
    /\ response = NoResponse

\* AuthContext.tsx lines 24-27: the state AuthProvider is constructed with,
\* before its effect has run
NoUser == [isNull |-> TRUE, id |-> "", role |-> ""]
NoError == ""
NoSession == ""

InitialContext == [user |-> NoUser, loading |-> TRUE, error |-> NoError, isAdmin |-> FALSE]

NoProvider ==
    /\ authContext = InitialContext
    /\ session = NoSession
    /\ subscribed = FALSE
    /\ fetchUsers = <<>>
    /\ lastEvent = "none"

\* the local variables of a request, as a record
NoRequest ==
    [pc |-> "idle", userId |-> NullId, calls |-> <<>>, userData |-> [found |-> FALSE],
     experiencesData |-> <<>>, userSkillsData |-> <<>>, certificationsData |-> <<>>,
     locals |-> [done |-> FALSE], template |-> "unknown",
     dataForTemplate |-> [built |-> FALSE], failure |-> NoFailure,
     renderError |-> NoRenderError, response |-> NoResponse]

\* The tables behind the supabase client.  A write to a table (insert,
\* update, upsert, delete) makes a new revision of it; a select makes none.
Tables == {"users", "experiences", "experience_skills", "skills", "skill_families",
           "user_skills", "certifications", "trainings"}

InitialStore == [t \in Tables |-> 0]

EnvInit ==
    /\ tz \in TZOffsets
    /\ now \in NowPool
    /\ store = InitialStore
    /\ other = NoRequest

(***************************************************************************)
(* The rows the store can return.  Dates are those of DATE columns         *)
(* (startdate NOT NULL; enddate, certificationdate nullable); experiences  *)
(* come ordered by startdate descending (line 128); a user_skills row has  *)
(* a primary key, here its position in the result.                         *)
(***************************************************************************)
UserPool ==
    {[email |-> "ada@dxc.com", fullname |-> "Ada Lovelace", updatedat |-> DateStr(2024, 1, 5)]}

\* a skill joined to an experience (lines 120-125); the join is null when
\* the skill row is gone, and skill_families is null for a skill without family
NoLinkedSkill == [isNull |-> TRUE, name |-> "", type |-> "", hasFamily |-> FALSE, family |-> ""]
LinkedSkill(name, type, family) ==
    [isNull |-> FALSE, name |-> name, type |-> type, hasFamily |-> family # "", family |-> family]

\* "- Led team\n- Shipped v2" and "Built APIs", character by character
LedShipped ==
    <<"-", " ", "L", "e", "d", " ", "t", "e", "a", "m", "\n",
      "-", " ", "S", "h", "i", "p", "p", "e", "d", " ", "v", "2">>
BuiltAPIs == <<"B", "u", "i", "l", "t", " ", "A", "P", "I", "s">>

\* an ongoing experience
ExpArchitect ==
    [company |-> DXC, title |-> "Architect", description |-> LedShipped,
     startdate |-> DateStr(2021, 3, 1), enddate |-> NullStr,
     experience_skills |-> <<[skills |-> LinkedSkill("AWS", "hard", "Cloud")],
                             [skills |-> LinkedSkill("Scrum", "soft", "")]>>]

ExpDeveloper ==
    [company |-> Acme, title |-> "Developer", description |-> BuiltAPIs,
     startdate |-> DateStr(2019, 1, 1), enddate |-> DateStr(2020, 6, 1),
     experience_skills |-> <<[skills |-> LinkedSkill("Java", "hard", "Languages")],
                             [skills |-> NoLinkedSkill],
                             [skills |-> LinkedSkill("AWS", "hard", "Cloud")],
                             [skills |-> LinkedSkill("SQL", "hard", "Languages")],
                             [skills |-> LinkedSkill("Docker", "hard", "")]>>]

\* no constraint of the table orders startdate and enddate
ExpReversed ==
    [company |-> dxc, title |-> "", description |-> <<>>,
     startdate |-> DateStr(2019, 1, 1), enddate |-> DateStr(2018, 6, 1),
     experience_skills |-> <<>>]

ExperiencePool == {ExpArchitect, ExpDeveloper, ExpReversed}

\* A plausible slip: the read ordered with the oldest experience first.
OrderedByStartAsc(exps) ==
    \A i, j \in 1..Len(exps) :
        i < j => NewDate(exps[i].startdate) <= NewDate(exps[j].startdate)

OrderedByStartDesc(exps) ==
    \A i, j \in 1..Len(exps) :
        i < j => NewDate(exps[i].startdate) >= NewDate(exps[j].startdate)

\* the rows of one read are different records of the table
DistinctRows(exps) ==
    \A i, j \in 1..Len(exps) : i # j => exps[i] # exps[j]

ExperienceLists ==
    {exps \in SeqsUpTo(ExperiencePool, MaxExperiences) :
        OrderedByStartDesc(exps) /\ DistinctRows(exps)}

NullSkill == [isNull |-> TRUE, name |-> "", type |-> ""]
Skill(name, type) == [isNull |-> FALSE, name |-> name, type |-> type]

Training1 == [name |-> "Kubernetes Basics", date |-> DateStr(2023, 9, 10), provider |-> "CNCF"]
Training2 == [name |-> "Scrum Master", date |-> NullStr, provider |-> ""]

UserSkillPool ==
    {[hascertification |-> TRUE, certificationname |-> "", certificationdate |-> NullStr,
      skills |-> Skill("AWS", "hard"), hastrainings |-> FALSE, trainings |-> <<>>],
     [hascertification |-> TRUE, certificationname |-> "AWS Solutions Architect",
      certificationdate |-> DateStr(2022, 5, 1),
      skills |-> Skill("AWS", "hard"), hastrainings |-> TRUE, trainings |-> <<Training1>>],
     [hascertification |-> FALSE, certificationname |-> "", certificationdate |-> NullStr,
      skills |-> Skill("Scrum", "soft"), hastrainings |-> TRUE,
      trainings |-> <<Training2, Training1>>],
     [hascertification |-> TRUE, certificationname |-> "",
      certificationdate |-> DateStr(2020, 2, 1),
      skills |-> NullSkill, hastrainings |-> FALSE, trainings |-> <<Training1>>]}

WithId(row, i) ==
    [id |-> i, hascertification |-> row.hascertification,
     certificationname |-> row.certificationname,
     certificationdate |-> row.certificationdate, skills |-> row.skills,
     hastrainings |-> row.hastrainings, trainings |-> row.trainings]

UserSkillLists ==
    {[i \in 1..Len(rows) |-> WithId(rows[i], i)] : rows \in SeqsUpTo(UserSkillPool, MaxUserSkills)}

\* the rows of certifications whose userskill_id is in ids (line 163)
CertificationLists(ids) ==
    SeqsUpTo({[name |-> "CKA", date |-> DateStr(2021, 11, 20), userskill_id |-> ids[k]] :
                  k \in 1..Len(ids)},
             MaxCertifications)

\* Rows of user u2, with dates that Date cannot parse: a DATE column holds
\* 'infinity', which new Date() does not parse, and trainings.date is any
\* non-empty text (trainingSchema, skills/page.tsx line 55).
ExpEndless ==
    [company |-> Acme, title |-> "Consultant", description |-> BuiltAPIs,
     startdate |-> DateStr(2022, 1, 1), enddate |-> BadStr, experience_skills |-> <<>>]

ExpUndated ==
    [company |-> Acme, title |-> "Trainee", description |-> <<>>,
     startdate |-> BadStr, enddate |-> DateStr(2020, 6, 1),
     experience_skills |-> <<[skills |-> LinkedSkill("Java", "hard", "Languages")]>>]

ExpUndatedDXC ==
    [company |-> DXC, title |-> "Analyst", description |-> <<>>,
     startdate |-> BadStr, enddate |-> NullStr, experience_skills |-> <<>>]

\* neither date parses
ExpDateless ==
    [company |-> Acme, title |-> "Intern", description |-> <<>>,
     startdate |-> BadStr, enddate |-> BadStr, experience_skills |-> <<>>]

\* an experience that overlaps ExpArchitect
ExpAdvisor ==
    [company |-> Acme, title |-> "Advisor", description |-> <<>>,
     startdate |-> DateStr(2020, 1, 1), enddate |-> DateStr(2022, 1, 1),
     experience_skills |-> <<[skills |-> LinkedSkill("AWS", "hard", "Cloud")]>>]

MalformedExperienceLists ==
    {<<>>, <<ExpArchitect>>, <<ExpArchitect, ExpAdvisor>>,
     <<ExpEndless>>, <<ExpUndated>>, <<ExpUndatedDXC>>, <<ExpDateless>>,
     <<ExpUndated, ExpArchitect>>, <<ExpEndless, ExpArchitect>>}

TrainingUndated == [name |-> "Leadership", date |-> BadStr, provider |-> ""]

UserSkillDated ==
    [hascertification |-> TRUE, certificationname |-> "", certificationdate |-> DateStr(2021, 7, 1),
     skills |-> Skill("AWS", "hard"), hastrainings |-> FALSE, trainings |-> <<>>]

UserSkillUndatedTraining ==
    [hascertification |-> FALSE, certificationname |-> "", certificationdate |-> NullStr,
     skills |-> Skill("Scrum", "soft"), hastrainings |-> TRUE,
     trainings |-> <<TrainingUndated>>]

UserSkillTraining ==
    [hascertification |-> FALSE, certificationname |-> "", certificationdate |-> NullStr,
     skills |-> Skill("Kubernetes", "hard"), hastrainings |-> TRUE,
     trainings |-> <<Training1>>]

MalformedUserSkillLists ==
    {[i \in 1..Len(rows) |-> WithId(rows[i], i)] :
        rows \in {<<>>, <<UserSkillDated, UserSkillUndatedTraining>>,
                  <<UserSkillUndatedTraining, UserSkillTraining>>,
                  <<UserSkillTraining, UserSkillDated>>}}

\* Rows of users u3 and u4, each with one state of the tables.
Ada == [email |-> "ada@dxc.com", fullname |-> "Ada Lovelace", updatedat |-> DateStr(2024, 1, 5)]
Grace == [email |-> "", fullname |-> "Grace Hopper", updatedat |-> NullStr]

\* .eq('id', userId), line 106
UsersOf(id) ==
    CASE id = "u3" -> {Ada}
      [] id = "u4" -> {Grace}
      [] OTHER -> UserPool

\* User u5 has experiences and at most one skill of their own; user u6 has
\* skills and at most the experience ExpDeveloper.
\* .eq('userid', userId).order('startdate', {ascending: false}), lines 127-128
ExperiencesOf(id) ==
    CASE id = "u2" -> MalformedExperienceLists
      [] id = "u3" -> {<<ExpArchitect>>}
      [] id = "u4" -> {<<ExpDeveloper>>}
      [] id = "u5" -> ExperienceLists
      [] id = "u6" -> {<<>>, <<ExpDeveloper>>}
      [] OTHER -> ExperienceLists

\* .eq('userid', userId), line 145
UserSkillsOf(id) ==
    CASE id = "u2" -> MalformedUserSkillLists
      [] id = "u3" -> {<<WithId(UserSkillDated, 1)>>}
      [] id = "u4" -> {<<>>}
      [] id = "u5" -> {<<>>, <<WithId(UserSkillDated, 1)>>}
      [] id = "u6" -> UserSkillLists
      [] OTHER -> UserSkillLists

StoreErrors == {"permission denied for table"}

\* what doc.render can throw: an Error, or a template error whose
\* properties.errors lists one diagnostic per placeholder
Absent == "<absent>"

DiagnosticPool ==
    {[id |-> "unopened_tag", message |-> "Unopened tag",
      explanation |-> "The tag beginning with \"}\" is unopened", stack |-> "at verifyErrors"],
     [id |-> "scopeparser_execution_failed", message |-> "Scope parser execution failed",
      explanation |-> "The scope parser for the tag fullname failed", stack |-> Absent]}

RenderOutcomes ==
    {NoRenderError,
     [threw |-> TRUE, message |-> "Cannot read properties of undefined",
      hasErrors |-> FALSE, errors |-> <<>>]}
    \cup {[threw |-> TRUE, message |-> "Multi error", hasErrors |-> TRUE, errors |-> es] :
              es \in SeqsUpTo(DiagnosticPool, MaxDiagnostics) \ {<<>>}}

(***************************************************************************)
(* Responses.                                                              *)
(***************************************************************************)
Json(status, error) ==
    [status |-> status, error |-> error, details |-> "absent", message |-> "", list |-> <<>>]

\* A plausible slip: the caught error answered without its message.
CaughtWithoutDetails(message) ==
    [status |-> 500, error |-> "Failed to generate CV.", details |-> "absent",
     message |-> "", list |-> <<>>]

\* NextResponse.json({error, details: error.message}, {status: 500}), line 397
Caught(message) ==
    [status |-> 500, error |-> "Failed to generate CV.", details |-> "message",
     message |-> message, list |-> <<>>]

\* new NextResponse(buf, {status: 200, headers}), lines 390-393
Document == [status |-> 200, error |-> "", details |-> "absent", message |-> "", list |-> <<>>]

Call(op, ids) == [op |-> op, ids |-> ids]

(***************************************************************************)
(* Section B of GET, lines 182-322.                                        *)
(***************************************************************************)
\* lines 194-203; toISOString throws when the latest end is an Invalid Date
TotalExperience(experiences) ==
    IF Len(experiences) = 0 THEN [threw |-> FALSE, text |-> "N/A"]
    ELSE LET allStartDates == [i \in 1..Len(experiences) |-> NewDate(experiences[i].startdate)]
             allEndDates == [i \in 1..Len(experiences) |-> EffectiveEnd(experiences[i])]
         IN  IF \E i \in 1..Len(allStartDates) : allStartDates[i] = NaN
             THEN [threw |-> FALSE, text |-> "N/A"]
             ELSE Apply2(LAMBDA minStartDate, maxEndDate :
                             IF maxEndDate = NaN
                             THEN [threw |-> TRUE, text |-> "Invalid time value"]
                             ELSE [threw |-> FALSE,
                                   text |-> calculateDuration(toISOString(minStartDate),
                                                              toISOString(maxEndDate))],
                         MathMin(allStartDates), MathMax(allEndDates))

\* A plausible slip: indexing the first experience without the optional chain,
\* which throws on an empty list.
RoleInCompanyUnguarded(experiences) ==
    IF Len(experiences) = 0
    THEN [threw |-> TRUE, text |-> "TypeError: Cannot read properties of undefined"]
    ELSE [threw |-> FALSE, text |-> IF experiences[1].title # "" THEN experiences[1].title ELSE "N/A"]

\* line 187
RoleInCompany(experiences) ==
    [threw |-> FALSE,
     text |-> IF Len(experiences) > 0 /\ experiences[1].title # ""
              THEN experiences[1].title ELSE "N/A"]

\* date ? new Date(date).getFullYear() : "N/A", lines 277, 288, 298
YearOf(date) ==
    IF ~Truthy(date) THEN [kind |-> "N/A", value |-> 0]
    ELSE IF NewDate(date) = NaN THEN [kind |-> "NaN", value |-> 0]
    ELSE [kind |-> "number", value |-> getFullYear(NewDate(date))]

ActivityRow(name, institution, year) ==
    [course_certification_name |-> name, institution |-> institution, year |-> year,
     years_of_experience |-> ""]

\* lines 273-280
CertificationRows(certifications) ==
    [i \in 1..Len(certifications) |->
        ActivityRow(certifications[i].name, "N/A (Certification)", YearOf(certifications[i].date))]

\* A plausible slip: the trainings listed whatever the flag says.
TrainingRowsUnflagged(uskill) ==
    [i \in 1..Len(uskill.trainings) |->
        ActivityRow(uskill.trainings[i].name,
                    IF uskill.trainings[i].provider # "" THEN uskill.trainings[i].provider ELSE "N/A",
                    YearOf(uskill.trainings[i].date))]

\* lines 283-292
TrainingRows(uskill) ==
    IF uskill.hastrainings
    THEN [i \in 1..Len(uskill.trainings) |->
            ActivityRow(uskill.trainings[i].name,
                        IF uskill.trainings[i].provider # "" THEN uskill.trainings[i].provider ELSE "N/A",
                        YearOf(uskill.trainings[i].date))]
    ELSE <<>>

\* A plausible slip: the skill's name taken before the recorded name.
CertNameSkillFirst(uskill) ==
    IF ~uskill.skills.isNull /\ uskill.skills.name # "" THEN uskill.skills.name
    ELSE IF uskill.certificationname # "" THEN uskill.certificationname
    ELSE "Unnamed Certification"

\* line 294
CertName(uskill) ==
    IF uskill.certificationname # "" THEN uskill.certificationname
    ELSE IF ~uskill.skills.isNull /\ uskill.skills.name # "" THEN uskill.skills.name
    ELSE "Unnamed Certification"

\* lines 293-301
SyntheticRows(uskill) ==
    IF uskill.hascertification
    THEN <<ActivityRow(CertName(uskill), "N/A (via User Skill)", YearOf(uskill.certificationdate))>>
    ELSE <<>>

RECURSIVE UserSkillRows(_)
\* lines 282-302
UserSkillRows(userSkills) ==
    IF Len(userSkills) = 0 THEN <<>>
    ELSE TrainingRows(userSkills[1]) \o SyntheticRows(userSkills[1])
         \o UserSkillRows(Tail(userSkills))

\* lines 305-307; a NaN difference counts as 0 in Array.prototype.sort
CompareRows(a, b) ==
    IF a.year.kind = "NaN" \/ b.year.kind = "NaN" THEN 0
    ELSE (IF b.year.kind = "number" THEN b.year.value ELSE 0)
         - (IF a.year.kind = "number" THEN a.year.value ELSE 0)

RECURSIVE InsertRow(_, _)
InsertRow(sorted, row) ==
    IF Len(sorted) = 0 THEN <<row>>
    ELSE IF CompareRows(sorted[1], row) > 0 THEN <<row>> \o sorted
    ELSE <<sorted[1]>> \o InsertRow(Tail(sorted), row)

RECURSIVE SortRows(_)
\* Array.prototype.sort, line 304: a stable sort
SortRows(rows) ==
    IF Len(rows) = 0 THEN <<>>
    ELSE Apply(LAMBDA sorted : InsertRow(sorted, rows[Len(rows)]),
               SortRows(SubSeq(rows, 1, Len(rows) - 1)))

\* The comparator of lines 304-308 is consistent unless a row of year NaN
\* (equal to every row) stands among rows of different years.
ConsistentComparator(rows) ==
    \/ \A i \in 1..Len(rows) : rows[i].year.kind # "NaN"
    \/ \A i, j \in 1..Len(rows) :
          rows[i].year.kind # "NaN" /\ rows[j].year.kind # "NaN"
              => CompareRows(rows[i], rows[j]) = 0

Orderings(rows) ==
    {[i \in 1..Len(rows) |-> rows[f[i]]] :
        f \in {g \in [1..Len(rows) -> 1..Len(rows)] :
                  \A i, j \in 1..Len(rows) : g[i] = g[j] => i = j}}

\* What Array.prototype.sort can leave, line 304: the stable sort, or, when
\* the comparator is not consistent, an order the engine defines.
SortOutcomes(rows) ==
    IF ConsistentComparator(rows) THEN {SortRows(rows)} ELSE Orderings(rows)

\* lines 272-308: the orders in which the rows can come out
ProfessionalActivitiesRows(certifications, userSkills) ==
    Apply(SortOutcomes, CertificationRows(certifications) \o UserSkillRows(userSkills))

\* Map.prototype.has, get and set on a Map, which keeps its keys in the
\* order of their first insertion: a sequence of [key, value]
MapHas(map, key) == \E i \in 1..Len(map) : map[i].key = key
MapGet(map, key) == map[CHOOSE i \in 1..Len(map) : map[i].key = key].value
\* A plausible slip: an entry, once set, is kept.
MapSetAbsent(map, key, value) ==
    IF MapHas(map, key) THEN map ELSE Append(map, [key |-> key, value |-> value])

MapSet(map, key, value) ==
    IF MapHas(map, key)
    THEN [i \in 1..Len(map) |->
            IF map[i].key = key THEN [key |-> key, value |-> value] ELSE map[i]]
    ELSE Append(map, [key |-> key, value |-> value])

RECURSIVE DomainLinks(_, _, _)
\* lines 231-240: the skills of one experience entered in the map
DomainLinks(map, links, expDuration) ==
    IF Len(links) = 0 THEN map
    ELSE LET es == links[1]
             domainName == es.skills.family
             skillsMap == IF MapHas(map, domainName) THEN MapGet(map, domainName) ELSE <<>>
         IN  Apply(LAMBDA entered : DomainLinks(entered, Tail(links), expDuration),
                   IF ~es.skills.isNull /\ es.skills.hasFamily
                   THEN MapSet(map, domainName,
                               MapSet(skillsMap, es.skills.name, expDuration))
                   ELSE map)

RECURSIVE DomainExpertiseMap(_, _)
\* lines 228-241
DomainExpertiseMap(map, experiences) ==
    IF Len(experiences) = 0 THEN map
    ELSE Apply(LAMBDA entered : DomainExpertiseMap(entered, Tail(experiences)),
               DomainLinks(map, experiences[1].experience_skills,
                           calculateDuration(experiences[1].startdate, experiences[1].enddate)))

RECURSIVE DomainRows(_)
\* lines 242-247
DomainRows(map) ==
    IF Len(map) = 0 THEN <<>>
    ELSE [i \in 1..Len(map[1].value) |->
             [domain |-> map[1].key, specific_area |-> map[1].value[i].key,
              experience_yrs_months |-> map[1].value[i].value]]
         \o DomainRows(Tail(map))

DomainExpertiseRows(experiences) == Apply(DomainRows, DomainExpertiseMap(<<>>, experiences))

RECURSIVE TechnicalLinksWithFamily(_, _, _)
\* A plausible slip: the guard of the domain table (line 232) applied to the
\* technical skills as well.
TechnicalLinksWithFamily(list, links, expDuration) ==
    IF Len(links) = 0 THEN list
    ELSE LET es == links[1]
         IN  TechnicalLinksWithFamily(
                 IF /\ ~es.skills.isNull
                    /\ es.skills.hasFamily
                    /\ es.skills.type = "hard"
                    /\ ~\E i \in 1..Len(list) : list[i].skill_name = es.skills.name
                 THEN Append(list, [skill_name |-> es.skills.name,
                                    experience_yrs_months |-> expDuration])
                 ELSE list,
                 Tail(links), expDuration)

RECURSIVE TechnicalLinksOverwriting(_, _, _)
\* A plausible slip: a skill already listed takes the tenure of the
\* experience at hand.
TechnicalLinksOverwriting(list, links, expDuration) ==
    IF Len(links) = 0 THEN list
    ELSE LET es == links[1]
             entry == [skill_name |-> es.skills.name, experience_yrs_months |-> expDuration]
         IN  TechnicalLinksOverwriting(
                 IF ~es.skills.isNull /\ es.skills.type = "hard"
                 THEN IF \E i \in 1..Len(list) : list[i].skill_name = es.skills.name
                      THEN [i \in 1..Len(list) |->
                               IF list[i].skill_name = es.skills.name THEN entry ELSE list[i]]
                      ELSE Append(list, entry)
                 ELSE list,
                 Tail(links), expDuration)

RECURSIVE TechnicalLinks(_, _, _)
\* lines 253-263
TechnicalLinks(list, links, expDuration) ==
    IF Len(links) = 0 THEN list
    ELSE LET es == links[1]
         IN  Apply(LAMBDA pushed : TechnicalLinks(pushed, Tail(links), expDuration),
                   IF /\ ~es.skills.isNull
                      /\ es.skills.type = "hard"
                      /\ ~\E i \in 1..Len(list) : list[i].skill_name = es.skills.name
                   THEN Append(list, [skill_name |-> es.skills.name,
                                      experience_yrs_months |-> expDuration])
                   ELSE list)

RECURSIVE TechnicalSkills(_, _)
\* lines 250-264
TechnicalSkills(list, experiences) ==
    IF Len(experiences) = 0 THEN list
    ELSE Apply(LAMBDA pushed : TechnicalSkills(pushed, Tail(experiences)),
               TechnicalLinks(list, experiences[1].experience_skills,
                              calculateDuration(experiences[1].startdate, experiences[1].enddate)))

\* Date.prototype.toLocaleDateString('fr-FR'): dd/mm/yyyy in local time
Pad2(n) == IF n < 10 THEN "0" \o ToString(n) ELSE ToString(n)
toLocaleDateString(t) ==
    IF t = NaN THEN "Invalid Date"
    ELSE LET f == LocalFields(t)
         IN  Pad2(f.d) \o "/" \o Pad2(f.m) \o "/" \o ToString(f.y)

RECURSIVE Split(_)
\* String.prototype.split('\n'), line 320
Split(s) ==
    IF \E i \in 1..Len(s) : s[i] = "\n"
    THEN LET i == CHOOSE k \in 1..Len(s) :
                      s[k] = "\n" /\ \A j \in 1..(k - 1) : s[j] # "\n"
         IN  <<SubSeq(s, 1, i - 1)>> \o Split(SubSeq(s, i + 1, Len(s)))
    ELSE <<s>>

\* A plausible slip: the dash removed and the space after it left.
StripDash(r) ==
    IF Len(r) >= 1 /\ r[1] = "-" THEN SubSeq(r, 2, Len(r)) ELSE r

\* r.replace(/^- /, ''), line 320
StripBullet(r) ==
    IF Len(r) >= 2 /\ r[1] = "-" /\ r[2] = " " THEN SubSeq(r, 3, Len(r)) ELSE r

\* line 320
Responsibilities(description) ==
    IF Len(description) = 0 THEN <<>>
    ELSE LET lines == Split(description)
         IN  [i \in 1..Len(lines) |-> [text |-> StripBullet(lines[i])]]

\* lines 312-322
EmploymentHistoryItems(experiences) ==
    [i \in 1..Len(experiences) |->
        [project_name |-> experiences[i].title,
         client |-> experiences[i].company,
         project_location |-> "Brussels, Belgium",
         start_date |-> IF Truthy(experiences[i].startdate)
                        THEN toLocaleDateString(NewDate(experiences[i].startdate))
                        ELSE "N/A",
         end_date |-> IF Truthy(experiences[i].enddate)
                      THEN toLocaleDateString(NewDate(experiences[i].enddate))
                      ELSE "Présent",
         team_size |-> "...",
         project_description |-> experiences[i].description,
         responsibilities |-> Responsibilities(experiences[i].description),
         other_contributions |-> <<>>]]

\* lines 182-322: the values section B computes from the four results, one
\* record per order the sort can leave; its throw is a record of its own
SectionB(user, experiences, userSkills, certifications) ==
    LET role == RoleInCompany(experiences)
        total == TotalExperience(experiences)
    IN  IF role.threw \/ total.threw
        THEN {[done |-> FALSE, threw |-> TRUE,
               message |-> IF role.threw THEN role.text ELSE total.text]}
        ELSE {[done |-> TRUE,
               role_in_company |-> role.text,
               email_id |-> user.email,
               fullname |-> user.fullname,
               total_experience |-> total.text,
               experience_summary_points |-> <<"Summary généré par défaut.">>,
               domain_expertise_rows |-> DomainExpertiseRows(experiences),
               technical_expertise_primary_skills |-> TechnicalSkills(<<>>, experiences),
               education_background_rows |-> <<>>,
               professional_activities_rows |-> rows,
               employment_history_items |-> EmploymentHistoryItems(experiences)] :
                  rows \in ProfessionalActivitiesRows(certifications, userSkills)}

\* lines 344-361, given the text calculateDurationForCompany returned
DataForTemplate(values, user, dxcExperience) ==
    [built |-> TRUE,
     fullname |-> IF values.fullname # "" THEN values.fullname ELSE "N/A",
     role_in_company |-> values.role_in_company,
     email_id |-> IF values.email_id # "" THEN values.email_id ELSE "N/A",
     total_experience |-> values.total_experience,
     dxc_experience |-> dxcExperience,
     experience_summary_points |-> values.experience_summary_points,
     domain_expertise_rows |-> values.domain_expertise_rows,
     technical_expertise_primary_skills |-> values.technical_expertise_primary_skills,
     technical_expertise_secondary_skills |-> <<>>,
     education_background_rows |-> values.education_background_rows,
     professional_activities_rows |-> values.professional_activities_rows,
     employment_history_items |-> values.employment_history_items,
     main_company |-> "DXC Technology",
     contact_no |-> "...",
     location |-> "Company Address",
     last_updated |-> IF Truthy(user.updatedat)
                      THEN toLocaleDateString(NewDate(user.updatedat))
                      ELSE toLocaleDateString(now)]

(***************************************************************************)
(* GET, lines 88-399: one action per stretch of code between two awaits or *)
(* two calls of a collaborator.                                            *)
(***************************************************************************)
RequestInit ==
    /\ tz \in TZOffsets
    /\ now = RequestClock
    /\ store = InitialStore
    /\ other = NoRequest
    /\ fnArgs = [none |-> TRUE]
    /\ NoProvider
    /\ fnRet = [done |-> FALSE]
    /\ pc = "start"
    /\ userId \in {NullId, "", "u1"}
    /\ calls = <<>>
    /\ userData = [found |-> FALSE]
    /\ experiencesData = <<>>
    /\ userSkillsData = <<>>
    /\ certificationsData = <<>>
    /\ locals = [done |-> FALSE]
    /\ template = "unknown"
    /\ dataForTemplate = [built |-> FALSE]
    /\ failure = NoFailure
    /\ renderError = NoRenderError
    /\ response = NoResponse

\* A plausible slip: userId === null in place of !userId, so that an empty
\* userId is looked up.
StartNullOnly ==
    /\ pc = "start"
    /\ IF userId = NullId
       THEN /\ response' = Json(400, "userId is required")
            /\ failure' = Failed("parameter", "userId is required")
            /\ pc' = "done"
            /\ UNCHANGED calls
       ELSE /\ calls' = Append(calls, Call("users", <<>>))
            /\ pc' = "awaitUser"
            /\ UNCHANGED <<response, failure>>
    /\ UNCHANGED <<envVars, fnVars, authVars, userId, userData, experiencesData, userSkillsData,
                   certificationsData, locals, template, dataForTemplate, renderError>>

\* lines 89-107: the parameter check, then the users read is issued
Start ==
    /\ pc = "start"
    /\ IF userId \in {NullId, ""}
       THEN /\ response' = Json(400, "userId is required")
            /\ failure' = Failed("parameter", "userId is required")
            /\ pc' = "done"
            /\ UNCHANGED calls
       ELSE /\ calls' = Append(calls, Call("users", <<>>))
            /\ pc' = "awaitUser"
            /\ UNCHANGED <<response, failure>>
    /\ UNCHANGED <<envVars, fnVars, authVars, userId, userData, experiencesData, userSkillsData,
                   certificationsData, locals, template, dataForTemplate, renderError>>

\* .single() answers one row, or an error and no data (no row, or a failure)
UserOutcomes ==
    {[error |-> "", found |-> TRUE, row |-> u] : u \in UsersOf(userId)}
    \cup {[error |-> e, found |-> FALSE,
            row |-> [email |-> "", fullname |-> "", updatedat |-> NullStr]] :
              e \in StoreErrors \cup {"PGRST116: no rows"}}

\* A plausible slip: only a missing row answered 404 after the read went
\* through, an empty user being aggregated when the read reports no row.
UserReturnsLenient ==
    /\ pc = "awaitUser"
    /\ \E out \in UserOutcomes :
         IF out.error \in StoreErrors
         THEN /\ response' = Json(404, "User not found or error fetching user data.")
              /\ failure' = Failed("users", out.error)
              /\ pc' = "done"
              /\ UNCHANGED <<calls, userData>>
         ELSE /\ userData' = [found |-> out.found, email |-> out.row.email,
                              fullname |-> out.row.fullname,
                              updatedat |-> out.row.updatedat]
              /\ failure' = IF out.found THEN failure ELSE Failed("users", out.error)
              /\ calls' = Append(calls, Call("experiences", <<>>))
              /\ pc' = "awaitExperiences"
              /\ UNCHANGED response
    /\ UNCHANGED <<envVars, fnVars, authVars, userId, experiencesData, userSkillsData,
                   certificationsData, locals, template, dataForTemplate, renderError>>

\* lines 103-128: the users read returns; the experiences read is issued
UserReturns ==
    /\ pc = "awaitUser"
    /\ \E out \in UserOutcomes :
         IF out.error # "" \/ ~out.found
         THEN /\ response' = Json(404, "User not found or error fetching user data.")
              /\ failure' = Failed("users", out.error)
              /\ pc' = "done"
              /\ UNCHANGED <<calls, userData>>
         ELSE /\ userData' = [found |-> TRUE, email |-> out.row.email,
                              fullname |-> out.row.fullname,
                              updatedat |-> out.row.updatedat]
              /\ calls' = Append(calls, Call("experiences", <<>>))
              /\ pc' = "awaitExperiences"
              /\ UNCHANGED <<response, failure>>
    /\ UNCHANGED <<envVars, fnVars, authVars, userId, experiencesData, userSkillsData,
                   certificationsData, locals, template, dataForTemplate, renderError>>

\* A plausible slip: a failed experiences read issued a second time before
\* giving up.
ExperiencesReturnRetrying ==
    /\ pc = "awaitExperiences"
    /\ \/ \E e \in StoreErrors :
            IF Len(SelectSeq(calls, LAMBDA c : c.op = "experiences")) < 2
            THEN /\ calls' = Append(calls, Call("experiences", <<>>))
                 /\ UNCHANGED <<response, failure, pc, experiencesData>>
            ELSE /\ response' = Caught(e)
                 /\ failure' = Failed("experiences", e)
                 /\ pc' = "done"
                 /\ UNCHANGED <<calls, experiencesData>>
       \/ \E exps \in ExperiencesOf(userId) :
            /\ experiencesData' = exps
            /\ calls' = Append(calls, Call("user_skills", <<>>))
            /\ pc' = "awaitUserSkills"
            /\ UNCHANGED <<response, failure>>
    /\ UNCHANGED <<envVars, fnVars, authVars, userId, userData, userSkillsData,
                   certificationsData, locals, template, dataForTemplate, renderError>>

\* lines 116-145: the experiences read returns; the user_skills read is issued
ExperiencesReturn ==
    /\ pc = "awaitExperiences"
    /\ \/ \E e \in StoreErrors :
            /\ response' = Caught(e)
            /\ failure' = Failed("experiences", e)
            /\ pc' = "done"
            /\ UNCHANGED <<calls, experiencesData>>
       \/ \E exps \in ExperiencesOf(userId) :
            /\ experiencesData' = exps
            /\ calls' = Append(calls, Call("user_skills", <<>>))
            /\ pc' = "awaitUserSkills"
            /\ UNCHANGED <<response, failure>>
    /\ UNCHANGED <<envVars, fnVars, authVars, userId, userData, userSkillsData,
                   certificationsData, locals, template, dataForTemplate, renderError>>

\* the id of a row that has none; the ids of rows are 1, 2, ...
NullKey == 0

\* uskill ids that are not null, line 158
UserSkillIds(userSkills) ==
    LET ids == [i \in 1..Len(userSkills) |-> userSkills[i].id]
    IN  SelectSeq(ids, LAMBDA id : id # NullKey)

\* A plausible slip: the user_skills error logged and not thrown, the
\* request going on with no user skill.
UserSkillsReturnContinues ==
    /\ pc = "awaitUserSkills"
    /\ \/ \E e \in StoreErrors :
            /\ failure' = Failed("user_skills", e)
            /\ pc' = "aggregate"
            /\ UNCHANGED <<calls, userSkillsData, response>>
       \/ \E uskills \in UserSkillsOf(userId) :
            /\ userSkillsData' = uskills
            /\ IF Len(uskills) > 0 /\ Len(UserSkillIds(uskills)) > 0
               THEN /\ calls' = Append(calls, Call("certifications", UserSkillIds(uskills)))
                    /\ pc' = "awaitCertifications"
               ELSE /\ pc' = "aggregate"
                    /\ UNCHANGED calls
            /\ UNCHANGED <<response, failure>>
    /\ UNCHANGED <<envVars, fnVars, authVars, userId, userData, experiencesData,
                   certificationsData, locals, template, dataForTemplate, renderError>>

\* A plausible slip: the certifications queried whatever the number of user
\* skills, with an empty id list when there is none.
UserSkillsReturnAlwaysQueries ==
    /\ pc = "awaitUserSkills"
    /\ \/ \E e \in StoreErrors :
            /\ response' = Caught(e)
            /\ failure' = Failed("user_skills", e)
            /\ pc' = "done"
            /\ UNCHANGED <<calls, userSkillsData>>
       \/ \E uskills \in UserSkillsOf(userId) :
            /\ userSkillsData' = uskills
            /\ calls' = Append(calls, Call("certifications", UserSkillIds(uskills)))
            /\ pc' = "awaitCertifications"
            /\ UNCHANGED <<response, failure>>
    /\ UNCHANGED <<envVars, fnVars, authVars, userId, userData, experiencesData,
                   certificationsData, locals, template, dataForTemplate, renderError>>

\* lines 137-173: the user_skills read returns; the certifications read is
\* issued unless there is no user skill
UserSkillsReturn ==
    /\ pc = "awaitUserSkills"
    /\ \/ \E e \in StoreErrors :
            /\ response' = Caught(e)
            /\ failure' = Failed("user_skills", e)
            /\ pc' = "done"
            /\ UNCHANGED <<calls, userSkillsData>>
       \/ \E uskills \in UserSkillsOf(userId) :
            /\ userSkillsData' = uskills
            /\ IF Len(uskills) > 0 /\ Len(UserSkillIds(uskills)) > 0
               THEN /\ calls' = Append(calls, Call("certifications", UserSkillIds(uskills)))
                    /\ pc' = "awaitCertifications"
               ELSE /\ pc' = "aggregate"
                    /\ UNCHANGED calls
            /\ UNCHANGED <<response, failure>>
    /\ UNCHANGED <<envVars, fnVars, authVars, userId, userData, experiencesData,
                   certificationsData, locals, template, dataForTemplate, renderError>>

\* lines 160-179: the certifications read returns
CertificationsReturn ==
    /\ pc = "awaitCertifications"
    /\ \/ \E e \in StoreErrors :
            /\ response' = Caught(e)
            /\ failure' = Failed("certifications", e)
            /\ pc' = "done"
            /\ UNCHANGED certificationsData
       \/ \E certs \in CertificationLists(UserSkillIds(userSkillsData)) :
            /\ certificationsData' = certs
            /\ pc' = "aggregate"
            /\ UNCHANGED <<response, failure>>
    /\ UNCHANGED <<envVars, fnVars, authVars, userId, calls, userData, experiencesData,
                   userSkillsData, locals, template, dataForTemplate, renderError>>

\* A plausible slip: section B outside the try block, so that what it
\* throws leaves the handler without a response.
AggregateEscaping ==
    /\ pc = "aggregate"
    /\ \E values \in SectionB(userData, experiencesData, userSkillsData, certificationsData) :
         IF ~values.done
         THEN /\ failure' = Failed("aggregate", values.message)
              /\ pc' = "done"
              /\ UNCHANGED <<response, locals>>
         ELSE /\ locals' = values
              /\ pc' = "template"
              /\ UNCHANGED <<response, failure>>
    /\ UNCHANGED <<envVars, fnVars, authVars, userId, calls, userData, experiencesData,
                   userSkillsData, certificationsData, template, dataForTemplate,
                   renderError>>

\* lines 182-322: the values of the view model are computed
Aggregate ==
    /\ pc = "aggregate"
    /\ \E values \in SectionB(userData, experiencesData, userSkillsData, certificationsData) :
         IF ~values.done
         THEN /\ response' = Caught(values.message)
              /\ failure' = Failed("aggregate", values.message)
              /\ pc' = "done"
              /\ UNCHANGED locals
         ELSE /\ locals' = values
              /\ pc' = "template"
              /\ UNCHANGED <<response, failure>>
    /\ UNCHANGED <<envVars, fnVars, authVars, userId, calls, userData, experiencesData,
                   userSkillsData, certificationsData, template, dataForTemplate,
                   renderError>>

\* A plausible slip: the file read without the existsSync test, so that a
\* missing file is thrown by readFileSync and answered by the catch.
LoadTemplateUntested ==
    /\ pc = "template"
    /\ \E found \in {"missing", "corrupt", "ok"} :
         /\ template' = found
         /\ IF found = "missing"
            THEN /\ response' = Caught("ENOENT: no such file or directory")
                 /\ failure' = Failed("template", "ENOENT: no such file or directory")
                 /\ pc' = "done"
            ELSE IF found = "corrupt"
            THEN /\ response' = Caught("Corrupted zip or template")
                 /\ failure' = Failed("template", "Corrupted zip or template")
                 /\ pc' = "done"
            ELSE /\ pc' = "buildData"
                 /\ UNCHANGED <<response, failure>>
    /\ UNCHANGED <<envVars, fnVars, authVars, userId, calls, userData, experiencesData,
                   userSkillsData, certificationsData, locals, dataForTemplate,
                   renderError>>

\* lines 325-342: the template is looked up, read and compiled
LoadTemplate ==
    /\ pc = "template"
    /\ \E found \in {"missing", "corrupt", "ok"} :
         /\ template' = found
         /\ IF found = "missing"
            THEN /\ response' = Json(404, "Template file not found.")
                 /\ failure' = Failed("template", "Template file not found.")
                 /\ pc' = "done"
            ELSE IF found = "corrupt"
            THEN /\ response' = Caught("Corrupted zip or template")
                 /\ failure' = Failed("template", "Corrupted zip or template")
                 /\ pc' = "done"
            ELSE /\ pc' = "buildData"
                 /\ UNCHANGED <<response, failure>>
    /\ UNCHANGED <<envVars, fnVars, authVars, userId, calls, userData, experiencesData,
                   userSkillsData, certificationsData, locals, dataForTemplate,
                   renderError>>

\* lines 344-361
BuildData ==
    /\ pc = "buildData"
    /\ LET dxcExperience == calculateDurationForCompany(experiencesData, DXC)
       IN  IF dxcExperience.threw
           THEN /\ response' = Caught(dxcExperience.text)
                /\ failure' = Failed("buildData", dxcExperience.text)
                /\ pc' = "done"
                /\ UNCHANGED dataForTemplate
           ELSE /\ dataForTemplate' = DataForTemplate(locals, userData, dxcExperience.text)
                /\ pc' = "render"
                /\ UNCHANGED <<response, failure>>
    /\ UNCHANGED <<envVars, fnVars, authVars, userId, calls, userData, experiencesData,
                   userSkillsData, certificationsData, locals, template, renderError>>

\* A plausible slip: every template error collapsed to its message.
RenderErrorDetailsGeneric(out) ==
    <<[id |-> Absent, message |-> out.message, explanation |-> Absent, stack |-> Absent]>>

\* lines 371-378
RenderErrorDetails(out) ==
    IF out.hasErrors
    THEN [i \in 1..Len(out.errors) |->
            [id |-> out.errors[i].id, message |-> out.errors[i].message,
             explanation |-> out.errors[i].explanation, stack |-> out.errors[i].stack]]
    ELSE <<[id |-> Absent, message |-> out.message, explanation |-> Absent, stack |-> Absent]>>

\* lines 366-382: doc.render is called once
Render ==
    /\ pc = "render"
    /\ calls' = Append(calls, Call("render", <<>>))
    /\ \E out \in RenderOutcomes :
         IF out.threw
         THEN /\ response' = [status |-> 500, error |-> "Failed to render CV document.",
                              details |-> "list", message |-> "",
                              list |-> RenderErrorDetails(out)]
              /\ renderError' = out
              /\ failure' = Failed("render", out.message)
              /\ pc' = "done"
         ELSE /\ pc' = "generate"
              /\ UNCHANGED <<response, renderError, failure>>
    /\ UNCHANGED <<envVars, fnVars, authVars, userId, userData, experiencesData,
                   userSkillsData, certificationsData, locals, template, dataForTemplate>>

\* A plausible slip: the generation of a CV recorded on the user's row
\* (an update of users.updatedat) before the document is sent.
GenerateRecording ==
    /\ pc = "generate"
    /\ \/ /\ response' = Caught("Cannot generate the zip")
          /\ failure' = Failed("generate", "Cannot generate the zip")
          /\ UNCHANGED store
       \/ /\ response' = Document
          /\ store' = [store EXCEPT !["users"] = @ + 1]
          /\ UNCHANGED failure
    /\ pc' = "done"
    /\ UNCHANGED <<tz, now, other, fnVars, authVars, userId, calls, userData, experiencesData,
                   userSkillsData, certificationsData, locals, template, dataForTemplate,
                   renderError>>

\* lines 384-393: the document is generated and sent
Generate ==
    /\ pc = "generate"
    /\ \/ /\ response' = Caught("Cannot generate the zip")
          /\ failure' = Failed("generate", "Cannot generate the zip")
       \/ /\ response' = Document
          /\ UNCHANGED failure
    /\ pc' = "done"
    /\ UNCHANGED <<envVars, fnVars, authVars, userId, calls, userData, experiencesData,
                   userSkillsData, certificationsData, locals, template, dataForTemplate,
                   renderError>>

Next ==
    \/ Start
    \/ UserReturns
    \/ ExperiencesReturn
    \/ UserSkillsReturn
    \/ CertificationsReturn
    \/ Aggregate
    \/ LoadTemplate
    \/ BuildData
    \/ Render
    \/ Generate

Spec == RequestInit /\ [][Next]_vars

(***************************************************************************)
(* SpecMalformed: one request for user u2, whose rows hold dates that Date *)
(* cannot parse.                                                           *)
(***************************************************************************)
MalformedInit ==
    /\ tz \in TZOffsets
    /\ now = RequestClock
    /\ store = InitialStore
    /\ other = NoRequest
    /\ fnArgs = [none |-> TRUE]
    /\ NoProvider
    /\ fnRet = [done |-> FALSE]
    /\ pc = "start"
    /\ userId = "u2"
    /\ calls = <<>>
    /\ userData = [found |-> FALSE]
    /\ experiencesData = <<>>
    /\ userSkillsData = <<>>
    /\ certificationsData = <<>>
    /\ locals = [done |-> FALSE]
    /\ template = "unknown"
    /\ dataForTemplate = [built |-> FALSE]
    /\ failure = NoFailure
    /\ renderError = NoRenderError
    /\ response = NoResponse

SpecMalformed == MalformedInit /\ [][Next]_vars

(***************************************************************************)
(* Requests of user u5, for the tables made from the experiences, and of   *)
(* user u6, for the table made from the user-skills and certifications.    *)
(***************************************************************************)
ExperiencesInit ==
    /\ tz \in TZOffsets
    /\ now = RequestClock
    /\ store = InitialStore
    /\ other = NoRequest
    /\ fnArgs = [none |-> TRUE]
    /\ NoProvider
    /\ fnRet = [done |-> FALSE]
    /\ pc = "start"
    /\ userId = "u5"
    /\ calls = <<>>
    /\ userData = [found |-> FALSE]
    /\ experiencesData = <<>>
    /\ userSkillsData = <<>>
    /\ certificationsData = <<>>
    /\ locals = [done |-> FALSE]
    /\ template = "unknown"
    /\ dataForTemplate = [built |-> FALSE]
    /\ failure = NoFailure
    /\ renderError = NoRenderError
    /\ response = NoResponse

SpecExperiences == ExperiencesInit /\ [][Next]_vars

ActivitiesInit ==
    /\ tz \in TZOffsets
    /\ now = RequestClock
    /\ store = InitialStore
    /\ other = NoRequest
    /\ fnArgs = [none |-> TRUE]
    /\ NoProvider
    /\ fnRet = [done |-> FALSE]
    /\ pc = "start"
    /\ userId = "u6"
    /\ calls = <<>>
    /\ userData = [found |-> FALSE]
    /\ experiencesData = <<>>
    /\ userSkillsData = <<>>
    /\ certificationsData = <<>>
    /\ locals = [done |-> FALSE]
    /\ template = "unknown"
    /\ dataForTemplate = [built |-> FALSE]
    /\ failure = NoFailure
    /\ renderError = NoRenderError
    /\ response = NoResponse

SpecActivities == ActivitiesInit /\ [][Next]_vars

(***************************************************************************)
(* Requests under fairness: each action is the synchronous code that       *)
(* follows a settled await, which the event loop runs once the promise of  *)
(* the read has settled.  The requests are those without userId and those  *)
(* of the users u2, u3 and u4.                                             *)
(***************************************************************************)
LiveUsers == {NullId, "", "u2", "u3", "u4"}

LiveInit ==
    /\ tz \in TZOffsets
    /\ now = RequestClock
    /\ store = InitialStore
    /\ other = NoRequest
    /\ fnArgs = [none |-> TRUE]
    /\ NoProvider
    /\ fnRet = [done |-> FALSE]
    /\ pc = "start"
    /\ userId \in LiveUsers
    /\ calls = <<>>
    /\ userData = [found |-> FALSE]
    /\ experiencesData = <<>>
    /\ userSkillsData = <<>>
    /\ certificationsData = <<>>
    /\ locals = [done |-> FALSE]
    /\ template = "unknown"
    /\ dataForTemplate = [built |-> FALSE]
    /\ failure = NoFailure
    /\ renderError = NoRenderError
    /\ response = NoResponse

SpecLive == LiveInit /\ [][Next]_vars /\ WF_vars(Next)

(***************************************************************************)
(* SpecPair: two requests in flight.  GET runs to completion between two   *)
(* awaits; while a request waits for the store at one of its four awaits   *)
(* the event loop runs the other one.  The variables of the request hold   *)
(* the running request and other holds the suspended one.                  *)
(***************************************************************************)
Running ==
    [pc |-> pc, userId |-> userId, calls |-> calls, userData |-> userData,
     experiencesData |-> experiencesData, userSkillsData |-> userSkillsData,
     certificationsData |-> certificationsData, locals |-> locals, template |-> template,
     dataForTemplate |-> dataForTemplate, failure |-> failure,
     renderError |-> renderError, response |-> response]

\* where a request leaves the event loop to another: before it starts, at
\* the awaits of lines 103, 116, 137 and 160, and once it has answered
Suspended == {"start", "awaitUser", "awaitExperiences", "awaitUserSkills",
              "awaitCertifications", "done"}

\* A plausible slip: userData declared at module level, so that both
\* requests read and write the same variable.
SwitchSharingUserData ==
    /\ pc \in Suspended
    /\ other.pc \in Suspended \ {"done"}
    /\ other' = Running
    /\ pc' = other.pc
    /\ userId' = other.userId
    /\ calls' = other.calls
    /\ experiencesData' = other.experiencesData
    /\ userSkillsData' = other.userSkillsData
    /\ certificationsData' = other.certificationsData
    /\ locals' = other.locals
    /\ template' = other.template
    /\ dataForTemplate' = other.dataForTemplate
    /\ failure' = other.failure
    /\ renderError' = other.renderError
    /\ response' = other.response
    /\ UNCHANGED <<tz, now, store, fnVars, authVars, userData>>

\* the running request waits and the event loop resumes the other one, each
\* with the variables of its own call of GET (lines 88-399 declare them all)
Switch ==
    /\ pc \in Suspended
    /\ other.pc \in Suspended \ {"done"}
    /\ other' = Running
    /\ pc' = other.pc
    /\ userId' = other.userId
    /\ calls' = other.calls
    /\ userData' = other.userData
    /\ experiencesData' = other.experiencesData
    /\ userSkillsData' = other.userSkillsData
    /\ certificationsData' = other.certificationsData
    /\ locals' = other.locals
    /\ template' = other.template
    /\ dataForTemplate' = other.dataForTemplate
    /\ failure' = other.failure
    /\ renderError' = other.renderError
    /\ response' = other.response
    /\ UNCHANGED <<tz, now, store, fnVars, authVars>>

PairUsers == {"", "u3", "u4"}

PairInit ==
    /\ tz \in TZOffsets
    /\ now = RequestClock
    /\ store = InitialStore
    /\ fnArgs = [none |-> TRUE]
    /\ NoProvider
    /\ fnRet = [done |-> FALSE]
    /\ pc = "start"
    /\ userId \in PairUsers
    /\ \E id \in PairUsers : other = [NoRequest EXCEPT !.pc = "start", !.userId = id]
    /\ calls = <<>>
    /\ userData = [found |-> FALSE]
    /\ experiencesData = <<>>
    /\ userSkillsData = <<>>
    /\ certificationsData = <<>>
    /\ locals = [done |-> FALSE]
    /\ template = "unknown"
    /\ dataForTemplate = [built |-> FALSE]
    /\ failure = NoFailure
    /\ renderError = NoRenderError
    /\ response = NoResponse

PairNext ==
    \/ Start
    \/ UserReturns
    \/ ExperiencesReturn
    \/ UserSkillsReturn
    \/ CertificationsReturn
    \/ Aggregate
    \/ LoadTemplate
    \/ BuildData
    \/ Render
    \/ Generate
    \/ Switch

SpecPair == PairInit /\ [][PairNext]_vars

(***************************************************************************)
(* SpecTenure: calculateDuration on bounded inputs.                        *)
(***************************************************************************)
TenureDates == {DateStr(y, m, d) : y \in 2019..2023, m \in {1, 4, 6, 12}, d \in {1, 10, 15, 28}}

TenureInit ==
    /\ EnvInit
    /\ IdleRequest
    /\ NoProvider
    /\ fnArgs \in [start : TenureDates \cup {NullStr, BadStr},
                   end : TenureDates \cup {NullStr, BadStr}]
    /\ fnRet = [done |-> FALSE, text |-> ""]

CallCalculateDuration ==
    /\ ~fnRet.done
    /\ fnRet' = [done |-> TRUE, text |-> calculateDuration(fnArgs.start, fnArgs.end)]
    /\ UNCHANGED <<fnArgs, envVars, reqVars, authVars>>

TenureNext == CallCalculateDuration

SpecTenure == TenureInit /\ [][TenureNext]_vars

(***************************************************************************)
(* SpecCompany: calculateDurationForCompany on bounded inputs.  The dates  *)
(* are those the experiences table can hold: startdate DATE NOT NULL,      *)
(* enddate DATE or null, in no enforced order.                             *)
(***************************************************************************)
CompanyNames == {DXC, Acme}

CompanyExpPool ==
    [company : {DXC, dxc, Acme, DXCT},
     startdate : {DateStr(2019, 1, 1), DateStr(2020, 1, 1)},
     enddate : {DateStr(2020, 6, 1), DateStr(2021, 1, 1), NullStr}]
    \cup {[company |-> <<>>, startdate |-> DateStr(2019, 1, 1), enddate |-> NullStr]}

CompanyInit ==
    /\ EnvInit
    /\ IdleRequest
    /\ NoProvider
    /\ fnArgs \in [experiences : SeqsUpTo(CompanyExpPool, MaxCompanyExps),
                   companyName : CompanyNames]
    /\ fnRet = [done |-> FALSE, threw |-> FALSE, text |-> ""]

CallCalculateDurationForCompany ==
    /\ ~fnRet.done
    /\ LET r == calculateDurationForCompany(fnArgs.experiences, fnArgs.companyName)
       IN  fnRet' = [done |-> TRUE, threw |-> r.threw, text |-> r.text]
    /\ UNCHANGED <<fnArgs, envVars, reqVars, authVars>>

CompanyNext == CallCalculateDurationForCompany

SpecCompany == CompanyInit /\ [][CompanyNext]_vars

(***************************************************************************)
(* SpecAuth: AuthProvider (AuthContext.tsx lines 23-99).  Its effect       *)
(* subscribes a listener to the auth client and calls fetchUser; the       *)
(* listener calls fetchUser again on an event that carries a session and   *)
(* clears user and isAdmin on one that carries none.  fetchUser has two    *)
(* awaits, getUser() and the read of the users row, and the event loop     *)
(* runs the listener and other calls of fetchUser between them.  State     *)
(* updates made in one turn of the event loop are rendered together.       *)
(* getUser belongs to @/lib/supabase: it resolves to the user of the       *)
(* session the auth client holds, or to null, or it rejects.               *)
(***************************************************************************)
MaxFetchUsers == 3      \* calls of fetchUser during the run

\* the rows of the users table the provider can read, with their role
AuthUsers == {"a1", "b2"}
RoleOf(id) == IF id = "a1" THEN "admin" ELSE "user"

Sessions == {NoSession} \cup AuthUsers

\* what getUser and the users read can fail with
AuthErrors == {"Failed to fetch"}

\* a call of fetchUser: the await it is at and the user getUser resolved to
FetchUser(step, supabaseUser) == [step |-> step, supabaseUser |-> supabaseUser]

\* lines 53-61: the row mapped to the User of the context
MappedUserData(id) == [isNull |-> FALSE, id |-> id, role |-> RoleOf(id)]

\* a state update of the provider; React drops it once the provider is unmounted
SetState(next) == authContext' = IF subscribed THEN next ELSE authContext

\* lines 29-92: the effect runs once, after the first render: it subscribes
\* the listener (line 77) and calls fetchUser (line 87), which runs up to
\* its first await (line 32)
Mount ==
    /\ ~subscribed
    /\ fetchUsers = <<>>
    /\ subscribed' = TRUE
    /\ fetchUsers' = <<FetchUser("getUser", NoSession)>>
    /\ UNCHANGED <<authContext, session, lastEvent>>
    /\ UNCHANGED <<envVars, fnVars, reqVars>>

\* lines 89-91: the cleanup of the effect
Unmount ==
    /\ subscribed
    /\ subscribed' = FALSE
    /\ UNCHANGED <<authContext, session, fetchUsers, lastEvent>>
    /\ UNCHANGED <<envVars, fnVars, reqVars>>

\* lines 77-85: the auth client changes state and calls the listener
AuthStateChange ==
    /\ subscribed
    /\ \E s \in Sessions :
         /\ session' = s
         /\ IF s # NoSession
            THEN /\ Len(fetchUsers) < MaxFetchUsers
                 /\ fetchUsers' = Append(fetchUsers, FetchUser("getUser", NoSession))
                 /\ lastEvent' = "session"
                 /\ UNCHANGED authContext
            ELSE /\ authContext' = [authContext EXCEPT !.user = NoUser, !.isAdmin = FALSE]
                 /\ lastEvent' = "noSession"
                 /\ UNCHANGED fetchUsers
    /\ UNCHANGED subscribed
    /\ UNCHANGED <<envVars, fnVars, reqVars>>

\* lines 32-34 and 68-73: getUser settles
GetUserReturns ==
    /\ \E i \in 1..Len(fetchUsers) :
         /\ fetchUsers[i].step = "getUser"
         /\ \/ \E err \in AuthErrors :
                 /\ SetState([authContext EXCEPT !.error = err, !.loading = FALSE])
                 /\ fetchUsers' = [fetchUsers EXCEPT ![i] = FetchUser("done", NoSession)]
            \/ IF session = NoSession
               THEN /\ SetState([authContext EXCEPT !.loading = FALSE])
                    /\ fetchUsers' = [fetchUsers EXCEPT ![i] = FetchUser("done", NoSession)]
               ELSE /\ fetchUsers' = [fetchUsers EXCEPT ![i] = FetchUser("select", session)]
                    /\ UNCHANGED authContext
    /\ UNCHANGED <<session, subscribed, lastEvent>>
    /\ UNCHANGED <<envVars, fnVars, reqVars>>

\* lines 38-73: the read of the users row settles
SelectReturns ==
    /\ \E i \in 1..Len(fetchUsers) :
         /\ fetchUsers[i].step = "select"
         /\ fetchUsers' = [fetchUsers EXCEPT ![i] = FetchUser("done", @.supabaseUser)]
         /\ \/ \E err \in AuthErrors :
                 SetState([authContext EXCEPT !.error = err, !.loading = FALSE])
            \/ LET data == MappedUserData(fetchUsers[i].supabaseUser)
               IN  SetState([authContext EXCEPT !.user = data,
                                                !.isAdmin = (data.role = "admin"),
                                                !.loading = FALSE])
    /\ UNCHANGED <<session, subscribed, lastEvent>>
    /\ UNCHANGED <<envVars, fnVars, reqVars>>

\* the provider as constructed, whatever session the auth client holds
AuthInit ==
    /\ tz = 0
    /\ now = RequestClock
    /\ store = InitialStore
    /\ other = NoRequest
    /\ IdleRequest
    /\ fnArgs = [none |-> TRUE]
    /\ fnRet = [done |-> FALSE]
    /\ authContext = InitialContext
    /\ session \in Sessions
    /\ subscribed = FALSE
    /\ fetchUsers = <<>>
    /\ lastEvent = "none"

AuthNext ==
    \/ Mount
    \/ Unmount
    \/ AuthStateChange
    \/ GetUserReturns
    \/ SelectReturns

SpecAuth == AuthInit /\ [][AuthNext]_vars

(***************************************************************************)
(* C6 (amended): calculateDuration for start = 2020-01-15 and              *)
(* end = 2023-04-10 returns "3 ans 3 mois": years = 3 and months = 3, the  *)
(* difference of the calendar months April and January, whatever the days  *)
(* of the month and the server's time zone.                                *)
(***************************************************************************)
C6_Args == [start |-> DateStr(2020, 1, 15), end |-> DateStr(2023, 4, 10)]

C6_Amended ==
    (fnRet.done /\ fnArgs = C6_Args) =>
        /\ fnRet.text = "3 ans 3 mois"
        /\ DurationSpan(NewDate(fnArgs.start), NewDate(fnArgs.end))
             = [nan |-> FALSE, years |-> 3, months |-> 3]

\* C6 as stated: years = 3 and months = 2, rendered "3 ans 2 mois"
C6_Original ==
    (fnRet.done /\ fnArgs = C6_Args) =>
        /\ fnRet.text = "3 ans 2 mois"
        /\ DurationSpan(NewDate(fnArgs.start), NewDate(fnArgs.end))
             = [nan |-> FALSE, years |-> 3, months |-> 2]

C6_Witness == fnRet.done /\ fnArgs = C6_Args /\ fnRet.text = "3 ans 3 mois"

(***************************************************************************)
(* Vocabulary of the claims about calculateDurationForCompany, stated      *)
(* without the helper's own filter and reductions.                         *)
(***************************************************************************)
CasePairs == {<<"A", "a">>, <<"C", "c">>, <<"D", "d">>, <<"T", "t">>, <<"X", "x">>}

SameLetter(a, b) == a = b \/ <<a, b>> \in CasePairs \/ <<b, a>> \in CasePairs

EqualIgnoreCase(s, t) ==
    /\ Len(s) = Len(t)
    /\ \A i \in 1..Len(s) : SameLetter(s[i], t[i])

MatchingIdx == {i \in 1..Len(fnArgs.experiences) :
                    EqualIgnoreCase(fnArgs.experiences[i].company, fnArgs.companyName)}

MatchingStarts == {NewDate(fnArgs.experiences[i].startdate) : i \in MatchingIdx}
MatchingEnds ==
    {IF fnArgs.experiences[i].enddate = NullStr THEN now
     ELSE NewDate(fnArgs.experiences[i].enddate) : i \in MatchingIdx}

EarliestStart == CHOOSE t \in MatchingStarts : \A u \in MatchingStarts : t <= u
LatestEnd == CHOOSE t \in MatchingEnds : \A u \in MatchingEnds : t >= u

SwapExps(exps, i, j) ==
    [k \in 1..Len(exps) |-> IF k = i THEN exps[j] ELSE IF k = j THEN exps[i] ELSE exps[k]]

C7_ExpA == [company |-> DXC, startdate |-> DateStr(2019, 1, 1), enddate |-> DateStr(2020, 6, 1)]
C7_ExpB == [company |-> DXC, startdate |-> DateStr(2020, 1, 1), enddate |-> DateStr(2021, 1, 1)]

(***************************************************************************)
(* C7: with at least one matching experience, calculateDurationForCompany  *)
(* returns the tenure of the envelope (earliest start, latest effective    *)
(* end, now for an experience without end date) of the matching            *)
(* experiences; A 2019-01-01..2020-06-01 and B 2020-01-01..2021-01-01 give *)
(* the tenure of 2019-01-01..2021-01-01, "2 ans", not the sum of both; and *)
(* exchanging two experiences does not change the result.                  *)
(***************************************************************************)
C7_Envelope ==
    (fnRet.done /\ MatchingIdx # {}) =>
        /\ ~fnRet.threw
        /\ fnRet.text = DurationText(DurationSpan(EarliestStart, LatestEnd))
        /\ (fnArgs.experiences \in {<<C7_ExpA, C7_ExpB>>, <<C7_ExpB, C7_ExpA>>}
              => /\ fnRet.text = "2 ans"
                 /\ fnRet.text = calculateDuration(DateStr(2019, 1, 1), DateStr(2021, 1, 1)))
        /\ \A i, j \in 1..Len(fnArgs.experiences) :
              calculateDurationForCompany(SwapExps(fnArgs.experiences, i, j),
                                          fnArgs.companyName).text = fnRet.text

C7_Witness ==
    /\ fnRet.done
    /\ fnArgs.experiences = <<C7_ExpB, C7_ExpA>>
    /\ fnArgs.companyName = DXC
    /\ fnRet.text = "2 ans"

(***************************************************************************)
(* C8: calculateDurationForCompany returns "N/A" exactly when no           *)
(* experience's company equals the name, letter case ignored; then the     *)
(* text is not a zero-length tenure, and with a matching experience the    *)
(* text is a tenure text and not "N/A".                                    *)
(***************************************************************************)
C8_Sentinel ==
    fnRet.done =>
        /\ (fnRet.text = "N/A") <=> (MatchingIdx = {})
        /\ MatchingIdx = {} => fnRet.text \notin {"", "Moins d'un mois"}
        /\ MatchingIdx # {} =>
              /\ ~fnRet.threw
              /\ fnRet.text \notin {"", "N/A"}

C8_Witness ==
    /\ fnRet.done
    /\ Len(fnArgs.experiences) = 2
    /\ fnArgs.experiences[1].company = DXCT
    /\ fnArgs.experiences[2].company = Acme
    /\ fnArgs.companyName = DXC
    /\ fnRet.text = "N/A"

(***************************************************************************)
(* Vocabulary of the claims about GET.                                     *)
(***************************************************************************)
Issued(op) == \E i \in 1..Len(calls) : calls[i].op = op
TimesIssued(op) == Cardinality({i \in 1..Len(calls) : calls[i].op = op})

\* the steps of the pipeline, in the order of the code
StepRank ==
    ("parameter" :> 0) @@ ("users" :> 1) @@ ("experiences" :> 2) @@ ("user_skills" :> 3)
    @@ ("certifications" :> 4) @@ ("aggregate" :> 5) @@ ("template" :> 6)
    @@ ("buildData" :> 7) @@ ("render" :> 8) @@ ("generate" :> 9)

Reads == {"users", "experiences", "user_skills", "certifications"}

(***************************************************************************)
(* C1: once a step has failed the request is over: no call of a later step *)
(* has been issued, the response is an error (404 or 500), never a 200     *)
(* document; after a failed user_skills read no certifications query was   *)
(* issued, no view model was built and the renderer was not called.        *)
(***************************************************************************)
C1_ShortCircuit ==
    failure.step \in DOMAIN StepRank \ {"parameter"} =>
        /\ pc = "done"
        /\ response.status \in {404, 500}
        /\ \A i \in 1..Len(calls) : StepRank[calls[i].op] <= StepRank[failure.step]
        /\ failure.step \in Reads =>
              /\ calls[Len(calls)].op = failure.step
              /\ ~locals.done
              /\ ~dataForTemplate.built
        /\ StepRank[failure.step] < StepRank["buildData"] => ~dataForTemplate.built
        /\ failure.step = "user_skills" =>
              /\ ~Issued("certifications")
              /\ ~Issued("render")
              /\ ~locals.done
              /\ ~dataForTemplate.built
              /\ response.status = 500

C1_Witness ==
    /\ failure.step = "user_skills"
    /\ pc = "done"
    /\ response.status = 500
    /\ Len(experiencesData) > 0
    /\ ~Issued("certifications")

C3_MissingParameter ==
    (userId \in {NullId, ""} /\ pc # "start") =>
        /\ pc = "done"
        /\ response.status = 400
        /\ response.error = "userId is required"
        /\ calls = <<>>
        /\ ~locals.done
        /\ ~dataForTemplate.built

C3_Witness == userId = "" /\ pc = "done" /\ response.status = 400

(***************************************************************************)
(* C4: when the users read returns no row, the answer is 404 and neither   *)
(* the experiences, user_skills or certifications read nor the aggregation *)
(* nor the renderer is reached.                                            *)
(***************************************************************************)
C4_NotFound ==
    (failure.step = "users" /\ failure.message = "PGRST116: no rows") =>
        /\ pc = "done"
        /\ response.status = 404
        /\ calls = <<Call("users", <<>>)>>
        /\ ~userData.found
        /\ ~locals.done
        /\ ~dataForTemplate.built

C4_Witness ==
    /\ failure = Failed("users", "PGRST116: no rows")
    /\ response.status = 404
    /\ pc = "done"

(***************************************************************************)
(* C5: when doc.render throws an error carrying a list of diagnostics, the *)
(* answer is 500 with a details array of one entry per diagnostic, in the  *)
(* same order, with the diagnostic's id, message and explanation, and      *)
(* render has been called once.                                            *)
(***************************************************************************)
C5_Diagnostics ==
    (renderError.threw /\ renderError.hasErrors) =>
        /\ pc = "done"
        /\ response.status = 500
        /\ response.details = "list"
        /\ Len(response.list) = Len(renderError.errors)
        /\ \A i \in 1..Len(renderError.errors) :
              /\ response.list[i].id = renderError.errors[i].id
              /\ response.list[i].message = renderError.errors[i].message
              /\ response.list[i].explanation = renderError.errors[i].explanation
        /\ TimesIssued("render") = 1

C5_Witness ==
    /\ renderError.threw
    /\ renderError.hasErrors
    /\ Len(renderError.errors) = 2
    /\ renderError.errors[1] # renderError.errors[2]
    /\ response.status = 500
    /\ Len(response.list) = 2

(***************************************************************************)
(* C9: with zero experience records the aggregation does not throw,        *)
(* role_in_company and total_experience are "N/A", and the request goes on *)
(* to the renderer and to a 200 answer unless a later step fails.          *)
(***************************************************************************)
NoExperienceRead == Issued("user_skills") /\ Len(experiencesData) = 0

C9_NoExperience ==
    NoExperienceRead =>
        /\ failure.step \notin {"aggregate", "buildData"}
        /\ pc \in {"template", "buildData", "render", "generate"} => locals.done
        /\ locals.done =>
              /\ locals.role_in_company = "N/A"
              /\ locals.total_experience = "N/A"
        /\ dataForTemplate.built =>
              /\ dataForTemplate.role_in_company = "N/A"
              /\ dataForTemplate.total_experience = "N/A"
        /\ (pc = "done" /\ failure.step = "") =>
              /\ response.status = 200
              /\ dataForTemplate.built
              /\ TimesIssued("render") = 1

C9_Witness ==
    /\ NoExperienceRead
    /\ pc = "done"
    /\ response.status = 200
    /\ dataForTemplate.role_in_company = "N/A"
    /\ dataForTemplate.total_experience = "N/A"

(***************************************************************************)
(* C10 (amended): for every user-skill record flagged hascertification for *)
(* which the certifications read returned no row,                          *)
(* professional_activities_rows holds exactly one synthetic entry for that *)
(* user-skill, named by the record's certificationname when it has one,    *)
(* otherwise by the skill's own name, and "Unnamed Certification" when the *)
(* skill is missing too.                                                   *)
(***************************************************************************)
Unbacked ==
    {i \in 1..Len(userSkillsData) :
        /\ userSkillsData[i].hascertification
        /\ \A k \in 1..Len(certificationsData) :
              certificationsData[k].userskill_id # userSkillsData[i].id}

Flagged == {i \in 1..Len(userSkillsData) : userSkillsData[i].hascertification}

SyntheticNamed(rows, name) ==
    Cardinality({k \in 1..Len(rows) :
                    /\ rows[k].institution = "N/A (via User Skill)"
                    /\ rows[k].course_certification_name = name})

RecordedOrSkillName(uskill) ==
    CASE uskill.certificationname # "" -> uskill.certificationname
      [] uskill.certificationname = "" /\ ~uskill.skills.isNull -> uskill.skills.name
      [] OTHER -> "Unnamed Certification"

C10_Amended ==
    locals.done =>
        LET rows == locals.professional_activities_rows
        IN  /\ \A i \in Unbacked :
                 SyntheticNamed(rows, RecordedOrSkillName(userSkillsData[i]))
                   = Cardinality({j \in Flagged : RecordedOrSkillName(userSkillsData[j])
                                                    = RecordedOrSkillName(userSkillsData[i])})
            /\ Cardinality({k \in 1..Len(rows) : rows[k].institution = "N/A (via User Skill)"})
                 = Cardinality(Flagged)
            /\ dataForTemplate.built => dataForTemplate.professional_activities_rows = rows

\* C10 as stated: the synthetic entry is named by the skill's own name
C10_Original ==
    locals.done =>
        \A i \in Unbacked :
            ~userSkillsData[i].skills.isNull =>
                SyntheticNamed(locals.professional_activities_rows, userSkillsData[i].skills.name)
                  = Cardinality({j \in Flagged : ~userSkillsData[j].skills.isNull
                                    /\ userSkillsData[j].skills.name = userSkillsData[i].skills.name})

C10_Witness ==
    /\ dataForTemplate.built
    /\ Len(userSkillsData) = 2
    /\ certificationsData = <<>>
    /\ userSkillsData[1].hascertification /\ userSkillsData[1].certificationname = ""
    /\ ~userSkillsData[1].skills.isNull
    /\ userSkillsData[2].hascertification /\ userSkillsData[2].certificationname # ""
    /\ SyntheticNamed(dataForTemplate.professional_activities_rows, "AWS") = 1
    /\ SyntheticNamed(dataForTemplate.professional_activities_rows, "AWS Solutions Architect") = 1

(***************************************************************************)
(* C11: after the sort professional_activities_rows is in non-increasing   *)
(* order of numeric year, a row whose year is missing or unparseable       *)
(* counting as year 0 and so standing after every row that has a real      *)
(* year.  The code departs from it: the year of an unparseable date is     *)
(* NaN, which typeof calls a number; it is not replaced by 0, the          *)
(* comparator returns NaN, and the row keeps its place before a later      *)
(* year.                                                                   *)
(***************************************************************************)
SortYear(row) == IF row.year.kind = "number" THEN row.year.value ELSE 0

C11_Original ==
    locals.done =>
        LET rows == locals.professional_activities_rows
        IN  \A i, j \in 1..Len(rows) :
                i < j => /\ SortYear(rows[i]) >= SortYear(rows[j])
                         /\ rows[j].year.kind = "number" => rows[i].year.kind = "number"

\* the training of unparseable date stands before the training of 2023
C11_Witness ==
    /\ pc = "done"
    /\ response.status = 200
    /\ userSkillsData = <<WithId(UserSkillUndatedTraining, 1), WithId(UserSkillTraining, 2)>>
    /\ certificationsData = <<>>
    /\ Len(dataForTemplate.professional_activities_rows) = 2
    /\ dataForTemplate.professional_activities_rows[1].course_certification_name = "Leadership"
    /\ dataForTemplate.professional_activities_rows[1].year.kind = "NaN"
    /\ dataForTemplate.professional_activities_rows[2].year = [kind |-> "number", value |-> 2023]

(***************************************************************************)
(* C12: the tenure text is "<years> an" ("ans" when years > 1) if          *)
(* years > 0 and "<months> mois" if months > 0, joined by one space when   *)
(* both are there; when both are zero, in particular whenever start and    *)
(* end fall in the same calendar month, the text is "Moins d'un mois" and  *)
(* never the empty string.  The code departs from it: a date-only string   *)
(* is parsed as UTC midnight and its month is read in local time, so west  *)
(* of UTC the first day of a month counts in the month before, and two     *)
(* dates of the same month are one month apart.                            *)
(***************************************************************************)
WellFormed(str) == str.kind \in {"date", "iso"}

\* the span calculateDuration works on for the arguments of the call
ArgsSpan ==
    DurationSpan(NewDate(fnArgs.start),
                 IF Truthy(fnArgs.end) THEN NewDate(fnArgs.end) ELSE now)

YearPhrase(years) ==
    IF years > 0 THEN ToString(years) \o (IF years > 1 THEN " ans" ELSE " an") ELSE ""

MonthPhrase(months) == IF months > 0 THEN ToString(months) \o " mois" ELSE ""

TenureText(years, months) ==
    CASE years > 0 /\ months > 0 -> YearPhrase(years) \o " " \o MonthPhrase(months)
      [] years > 0 /\ ~(months > 0) -> YearPhrase(years)
      [] ~(years > 0) /\ months > 0 -> MonthPhrase(months)
      [] OTHER -> "Moins d'un mois"

SameCalendarMonth(a, b) == a.y = b.y /\ a.m = b.m

C12_Original ==
    (fnRet.done /\ WellFormed(fnArgs.start) /\ fnArgs.end.kind # "bad") =>
        /\ fnRet.text = TenureText(ArgsSpan.years, ArgsSpan.months)
        /\ fnRet.text # ""
        /\ (WellFormed(fnArgs.end) /\ SameCalendarMonth(fnArgs.start, fnArgs.end))
              => fnRet.text = "Moins d'un mois"

\* 2020-04-01 to 2020-04-15 on a server five hours west of UTC
C12_Witness ==
    /\ fnRet.done
    /\ tz = -5
    /\ fnArgs = [start |-> DateStr(2020, 4, 1), end |-> DateStr(2020, 4, 15)]
    /\ fnRet.text = "1 mois"

\* what holds of the text for every time zone: it is built from the span as
\* C12 says, and the same local calendar month gives "Moins d'un mois"
C12_TextOfSpan ==
    (fnRet.done /\ WellFormed(fnArgs.start) /\ fnArgs.end.kind # "bad") =>
        /\ fnRet.text = TenureText(ArgsSpan.years, ArgsSpan.months)
        /\ fnRet.text # ""
        /\ (ArgsSpan.years = 0 /\ ArgsSpan.months = 0) => fnRet.text = "Moins d'un mois"

(***************************************************************************)
(* C13: employment_history_items has one item per experience record, in    *)
(* the order of the experiences read; the end date of an item is "Présent" *)
(* exactly when the experience has no end date; its responsibilities are   *)
(* the lines of the description, split on newline, each without its        *)
(* leading "- " (none for an empty description), so that                   *)
(* "- Led team\n- Shipped v2" gives ["Led team", "Shipped v2"].            *)
(***************************************************************************)
NewlinesOf(text) == {i \in 1..Len(text) : text[i] = "\n"}

\* the position of the k-th newline of text
NewlineNo(text, k) ==
    CHOOSE p \in NewlinesOf(text) : Cardinality({q \in NewlinesOf(text) : q < p}) = k - 1

\* the k-th line of text
LineNo(text, k) ==
    SubSeq(text,
           IF k = 1 THEN 1 ELSE NewlineNo(text, k - 1) + 1,
           IF k = Cardinality(NewlinesOf(text)) + 1 THEN Len(text) ELSE NewlineNo(text, k) - 1)

Unbulleted(line) ==
    IF Len(line) >= 2 /\ SubSeq(line, 1, 2) = <<"-", " ">>
    THEN [i \in 1..(Len(line) - 2) |-> line[i + 2]]
    ELSE line

LedTeam == <<"L", "e", "d", " ", "t", "e", "a", "m">>
ShippedV2 == <<"S", "h", "i", "p", "p", "e", "d", " ", "v", "2">>

C13_EmploymentHistory ==
    locals.done =>
        LET items == locals.employment_history_items
        IN  /\ Len(items) = Len(experiencesData)
            /\ \A i \in 1..Len(items) :
                  LET exp == experiencesData[i]
                      lines == items[i].responsibilities
                  IN  /\ items[i].client = exp.company
                      /\ items[i].project_name = exp.title
                      /\ items[i].project_description = exp.description
                      /\ (items[i].end_date = "Présent") <=> ~Truthy(exp.enddate)
                      /\ Len(lines) = IF exp.description = <<>> THEN 0
                                      ELSE Cardinality(NewlinesOf(exp.description)) + 1
                      /\ \A k \in 1..Len(lines) :
                            lines[k].text = Unbulleted(LineNo(exp.description, k))
                      /\ exp.description = LedShipped
                            => lines = <<[text |-> LedTeam], [text |-> ShippedV2]>>
            /\ dataForTemplate.built => dataForTemplate.employment_history_items = items

C13_Witness ==
    /\ pc = "done"
    /\ response.status = 200
    /\ experiencesData = <<ExpArchitect, ExpDeveloper>>
    /\ Len(dataForTemplate.employment_history_items) = 2
    /\ dataForTemplate.employment_history_items[1].end_date = "Présent"
    /\ dataForTemplate.employment_history_items[1].responsibilities
          = <<[text |-> LedTeam], [text |-> ShippedV2]>>
    /\ dataForTemplate.employment_history_items[2].client = Acme
    /\ dataForTemplate.employment_history_items[2].end_date # "Présent"
    /\ dataForTemplate.employment_history_items[2].responsibilities = <<[text |-> BuiltAPIs]>>

(***************************************************************************)
(* C14: an unparseable start or end date in an experience record never     *)
(* makes the request fail: the aggregation goes on, the handler answers    *)
(* the 200 document unless something else fails, and the malformed value   *)
(* is not surfaced as an error response.  The code departs from it: the    *)
(* latest end (line 200) and the dates of the DXC experiences (lines       *)
(* 82-83) reach toISOString unguarded, which throws on an Invalid Date,    *)
(* and the request ends in the 500 of the catch.                           *)
(***************************************************************************)
HasUnparseableDate(experiences) ==
    \E i \in 1..Len(experiences) :
        experiences[i].startdate.kind = "bad" \/ experiences[i].enddate.kind = "bad"

C14_Original ==
    (Issued("user_skills") /\ HasUnparseableDate(experiencesData)) =>
        /\ failure.step \notin {"aggregate", "buildData"}
        /\ response.message # "Invalid time value"
        /\ (pc = "done" /\ failure.step \notin {"user_skills", "certifications", "template",
                                                "render", "generate"})
              => response.status = 200

\* an experience whose end date is unparseable: the 500 of the catch
C14_Witness ==
    /\ pc = "done"
    /\ experiencesData = <<ExpEndless>>
    /\ failure = Failed("aggregate", "Invalid time value")
    /\ response = Caught("Invalid time value")
    /\ ~locals.done

\* what the code does guard: an unparseable start date outside DXC leaves
\* total_experience at "N/A" and the request goes on
C14_GuardedStart ==
    (locals.done /\ \E i \in 1..Len(experiencesData) : experiencesData[i].startdate.kind = "bad")
        => locals.total_experience = "N/A"

(***************************************************************************)
(* C15: the handler is read-only.  No step of a request, whatever its      *)
(* outcome (200, 400, 404, 500), changes a table of the store, the calls   *)
(* it issues are the four selects and the render, and a request that       *)
(* starts finds nothing computed by another one: each of its variables has *)
(* its initial value.                                                      *)
(***************************************************************************)
Requests == {Running, other}

FreshAtStart(r) ==
    r.pc = "start" => r = [NoRequest EXCEPT !.pc = "start", !.userId = r.userId]

OnlyReads(r) ==
    \A i \in 1..Len(r.calls) : r.calls[i].op \in Reads \cup {"render"}

C15_ReadOnly ==
    /\ [](\A r \in Requests : FreshAtStart(r) /\ OnlyReads(r))
    /\ [][store' = store]_vars

\* two requests served, one answered 200 and the other 404, the store as before
C15_Witness ==
    /\ pc = "done"
    /\ other.pc = "done"
    /\ response.status = 200
    /\ other.response.status = 404
    /\ store = InitialStore

(***************************************************************************)
(* C16: concurrent invocations share no mutable state.  Under every        *)
(* interleaving of two requests at their awaits, what each request holds   *)
(* is what the store returns for its own userId, the values and the view   *)
(* model it computes are those section B and dataForTemplate give for its  *)
(* own read results, and its response is the one determined by its own     *)
(* outcome: the response it produces when run alone.                       *)
(***************************************************************************)
UserRow(r) ==
    [email |-> r.userData.email, fullname |-> r.userData.fullname,
     updatedat |-> r.userData.updatedat]

OwnResults(r) ==
    /\ r.userData.found => UserRow(r) \in UsersOf(r.userId)
    /\ r.experiencesData # <<>> => r.experiencesData \in ExperiencesOf(r.userId)
    /\ r.userSkillsData # <<>> => r.userSkillsData \in UserSkillsOf(r.userId)
    /\ r.certificationsData \in CertificationLists(UserSkillIds(r.userSkillsData))

\* the response of a request that ended as r did
Answer(r) ==
    CASE r.failure.step = "" -> Document
      [] r.failure.step = "parameter" -> Json(400, "userId is required")
      [] r.failure.step = "users" -> Json(404, "User not found or error fetching user data.")
      [] r.failure.step = "template" /\ r.template = "missing" ->
             Json(404, "Template file not found.")
      [] r.failure.step = "render" ->
             [status |-> 500, error |-> "Failed to render CV document.", details |-> "list",
              message |-> "", list |-> RenderErrorDetails(r.renderError)]
      [] OTHER -> Caught(r.failure.message)

AsAlone(r) ==
    /\ OwnResults(r)
    /\ r.locals.done =>
          r.locals \in SectionB(r.userData, r.experiencesData, r.userSkillsData,
                                r.certificationsData)
    /\ r.dataForTemplate.built =>
          /\ r.locals.done
          /\ r.dataForTemplate =
                DataForTemplate(r.locals, r.userData,
                                calculateDurationForCompany(r.experiencesData, DXC).text)
    /\ r.pc = "done" =>
          /\ r.response = Answer(r)
          /\ r.response.status = 200 => r.dataForTemplate.built
    /\ r.pc # "done" => r.response = NoResponse

C16_Isolation == \A r \in Requests : AsAlone(r)

\* the request of u4 ran from its users read to its 200 while the request of
\* u3 waited for its certifications
C16_Witness ==
    /\ userId = "u4" /\ pc = "done" /\ response.status = 200
    /\ dataForTemplate.fullname = "Grace Hopper"
    /\ dataForTemplate.dxc_experience = "N/A"
    /\ other.userId = "u3" /\ other.pc = "awaitCertifications"
    /\ other.userData.fullname = "Ada Lovelace"
    /\ other.experiencesData = <<ExpArchitect>>

(***************************************************************************)
(* C17: the certifications query is issued only after the user_skills read *)
(* has returned successfully, and with exactly the non-null ids of the     *)
(* rows it returned; when it returned no row, or no id, the query is not   *)
(* issued, the certifications are empty and the request goes on.           *)
(***************************************************************************)
UserSkillsReturned ==
    /\ Issued("user_skills")
    /\ pc # "awaitUserSkills"
    /\ failure.step # "user_skills"

NonNullIds == {userSkillsData[i].id : i \in 1..Len(userSkillsData)} \ {NullKey}

CertificationsCall == calls[CHOOSE i \in 1..Len(calls) : calls[i].op = "certifications"]

C17_CertificationsQuery ==
    /\ Issued("certifications") =>
          /\ UserSkillsReturned
          /\ \E i, j \in 1..Len(calls) :
                i < j /\ calls[i].op = "user_skills" /\ calls[j].op = "certifications"
          /\ Len(userSkillsData) > 0
          /\ {CertificationsCall.ids[k] : k \in 1..Len(CertificationsCall.ids)} = NonNullIds
          /\ Len(CertificationsCall.ids) = Cardinality(NonNullIds)
          /\ NonNullIds # {}
    /\ ~UserSkillsReturned => ~Issued("certifications")
    /\ (UserSkillsReturned /\ NonNullIds = {}) =>
          /\ ~Issued("certifications")
          /\ certificationsData = <<>>
          /\ pc \in {"aggregate", "template", "buildData", "render", "generate", "done"}
          /\ failure.step # "certifications"
          /\ (pc = "done" /\ failure.step = "") => response.status = 200
    /\ (UserSkillsReturned /\ NonNullIds # {}) => Issued("certifications")

\* the query issued with the ids of two rows, and the request served
C17_Witness ==
    /\ pc = "done"
    /\ response.status = 200
    /\ Len(userSkillsData) = 2
    /\ calls = <<Call("users", <<>>), Call("experiences", <<>>), Call("user_skills", <<>>),
                 Call("certifications", <<1, 2>>), Call("render", <<>>)>>
    /\ Len(certificationsData) = 1

\* no user skill: the query skipped and the request served
C17_Skipped ==
    /\ pc = "done"
    /\ response.status = 200
    /\ userSkillsData = <<>>
    /\ ~Issued("certifications")

(***************************************************************************)
(* C18: in one request each of the four reads and the render call is       *)
(* invoked at most once, in the order users, experiences, user_skills,     *)
(* certifications, render; no stage is entered again or retried, whatever  *)
(* its outcome: every step moves the request forward and adds at most one  *)
(* call, of a later stage than every call before it.                       *)
(***************************************************************************)
PcRank ==
    ("start" :> 0) @@ ("awaitUser" :> 1) @@ ("awaitExperiences" :> 2)
    @@ ("awaitUserSkills" :> 3) @@ ("awaitCertifications" :> 4) @@ ("aggregate" :> 5)
    @@ ("template" :> 6) @@ ("buildData" :> 7) @@ ("render" :> 8) @@ ("generate" :> 9)
    @@ ("done" :> 10)

CallOrder == <<"users", "experiences", "user_skills", "certifications", "render">>

PlaceOf(op) == CHOOSE k \in 1..Len(CallOrder) : CallOrder[k] = op

InOrderOnce ==
    /\ \A i \in 1..Len(calls) : calls[i].op \in Reads \cup {"render"}
    /\ \A i, j \in 1..Len(calls) : i < j => PlaceOf(calls[i].op) < PlaceOf(calls[j].op)

Forward ==
    /\ PcRank[pc'] > PcRank[pc]
    /\ \/ calls' = calls
       \/ /\ Len(calls') = Len(calls) + 1
          /\ SubSeq(calls', 1, Len(calls)) = calls

C18_SinglePass == []InOrderOnce /\ [][Forward]_vars

\* the five calls issued, the last one failing, and none issued again
C18_Witness ==
    /\ pc = "done"
    /\ failure.step = "render"
    /\ response.status = 500
    /\ Len(calls) = 5
    /\ \A k \in 1..5 : calls[k].op = CallOrder[k]

(***************************************************************************)
(* C19: calculateDuration(start, end), end being the current time when it  *)
(* is null, computes years = end.year - start.year and                     *)
(* months = end.month - start.month, borrowing one year when months < 0    *)
(* and ignoring the day of the month; hence, for start not after end,      *)
(* 12 * years + months is the difference of the calendar-month indexes of  *)
(* end and start; and calculateDuration(start, null) equals                *)
(* calculateDuration(start, now) for the same clock value.  The code       *)
(* departs from it: the year and the month are read in local time from a   *)
(* date parsed as UTC midnight, so that west of UTC the result depends on  *)
(* the day of the month: a date on the 1st counts in the month before.     *)
(***************************************************************************)
MonthIndex(date) == 12 * date.y + (date.m - 1)

\* years and months of the calendar dates a and b, with the borrow
Borrowed(a, b) ==
    IF b.m - a.m < 0
    THEN [years |-> b.y - a.y - 1, months |-> b.m - a.m + 12]
    ELSE [years |-> b.y - a.y, months |-> b.m - a.m]

NotAfter(a, b) == <<a.y, a.m, a.d>> = <<b.y, b.m, b.d>> \/ NewDate(a) < NewDate(b)

C19_Original ==
    (fnRet.done /\ WellFormed(fnArgs.start)) =>
        /\ WellFormed(fnArgs.end) =>
              LET span == Borrowed(fnArgs.start, fnArgs.end)
              IN  /\ fnRet.text = TenureText(span.years, span.months)
                  /\ ArgsSpan.years = span.years /\ ArgsSpan.months = span.months
                  /\ NotAfter(fnArgs.start, fnArgs.end) =>
                        12 * ArgsSpan.years + ArgsSpan.months
                          = MonthIndex(fnArgs.end) - MonthIndex(fnArgs.start)
        /\ ~Truthy(fnArgs.end) =>
              fnRet.text = calculateDuration(fnArgs.start, toISOString(now))

\* 2020-04-01 to 2020-06-15, two calendar months apart, on a server five
\* hours west of UTC
C19_Witness ==
    /\ fnRet.done
    /\ tz = -5
    /\ fnArgs = [start |-> DateStr(2020, 4, 1), end |-> DateStr(2020, 6, 15)]
    /\ fnRet.text = "3 mois"

\* what holds in every time zone: the arithmetic on the local year and month
\* of the two instants, and the null end taken as now
C19_LocalArithmetic ==
    (fnRet.done /\ WellFormed(fnArgs.start) /\ fnArgs.end.kind # "bad") =>
        LET start == LocalFields(NewDate(fnArgs.start))
            end == LocalFields(IF Truthy(fnArgs.end) THEN NewDate(fnArgs.end) ELSE now)
            span == Borrowed(start, end)
        IN  /\ fnRet.text = TenureText(span.years, span.months)
            /\ 12 * span.years + span.months = MonthIndex(end) - MonthIndex(start)
            /\ span.months \in 0..11
            /\ ~Truthy(fnArgs.end) =>
                  fnRet.text = calculateDuration(fnArgs.start, toISOString(now))

(***************************************************************************)
(* C20: every tenure span calculateDuration computes has years >= 0 and    *)
(* months in 0..11, for every start date and end date (or now) the handler *)
(* passes to it from stored experience records.  The code departs from it: *)
(* nothing orders startdate and enddate, in the table or in the handler,   *)
(* and for an end date before the start date years is negative.            *)
(***************************************************************************)
\* the span of the call calculateDuration(exp.startdate, exp.enddate) of
\* lines 230 and 252
ExperienceSpan(exp) == DurationSpan(NewDate(exp.startdate), EffectiveEnd(exp))

C20_Original ==
    Issued("user_skills") =>
        \A i \in 1..Len(experiencesData) :
            /\ ExperienceSpan(experiencesData[i]).years >= 0
            /\ ExperienceSpan(experiencesData[i]).months \in 0..11

\* an experience from 2019-01-01 to 2018-06-01: years = -1, months = 5, and
\* the document shows a total experience of "5 mois"
C20_Witness ==
    /\ pc = "done"
    /\ response.status = 200
    /\ experiencesData = <<ExpReversed>>
    /\ ExperienceSpan(ExpReversed).years = -1
    /\ ExperienceSpan(ExpReversed).months = 5
    /\ dataForTemplate.total_experience = "5 mois"

\* what holds of every span: months in 0..11, and years >= 0 when the start
\* is not after the end
C20_MonthsInRange ==
    Issued("user_skills") =>
        \A i \in 1..Len(experiencesData) :
            /\ ExperienceSpan(experiencesData[i]).months \in 0..11
            /\ NewDate(experiencesData[i].startdate) <= EffectiveEnd(experiencesData[i])
                  => ExperienceSpan(experiencesData[i]).years >= 0

(***************************************************************************)
(* C21: with at least one experience total_experience is the tenure from   *)
(* the earliest start to the latest effective end (now for an experience   *)
(* without end date) over all experiences, so that overlapping experiences *)
(* are not counted twice; it is "N/A" with no experience, and when no      *)
(* start date parses.                                                      *)
(***************************************************************************)
Parseable(experiences) ==
    \A i \in 1..Len(experiences) :
        /\ experiences[i].startdate.kind = "date"
        /\ experiences[i].enddate.kind \in {"date", "null"}

NoStartParses(experiences) ==
    \A i \in 1..Len(experiences) : experiences[i].startdate.kind = "bad"

SetMin(S) == CHOOSE t \in S : \A u \in S : t <= u
SetMax(S) == CHOOSE t \in S : \A u \in S : t >= u

\* the span from the earliest start to the latest effective end
EnvelopeSpan(experiences) ==
    DurationSpan(SetMin({NewDate(experiences[i].startdate) : i \in 1..Len(experiences)}),
                 SetMax({EffectiveEnd(experiences[i]) : i \in 1..Len(experiences)}))

C21_TotalExperience ==
    /\ (pc = "done" /\ response.status = 200) => locals.done
    /\ locals.done =>
          /\ (Len(experiencesData) > 0 /\ Parseable(experiencesData)) =>
                locals.total_experience =
                    TenureText(EnvelopeSpan(experiencesData).years,
                               EnvelopeSpan(experiencesData).months)
          /\ (Len(experiencesData) = 0 \/ NoStartParses(experiencesData)) =>
                locals.total_experience = "N/A"

\* 2021-03-01 to now and 2020-01-01 to 2022-01-01 overlap: the total is the
\* 4 years 5 months from 2020-01 to 2024-06, not the 5 years 3 months of the sum
C21_Witness ==
    /\ pc = "done"
    /\ response.status = 200
    /\ tz = 0
    /\ experiencesData = <<ExpArchitect, ExpAdvisor>>
    /\ dataForTemplate.total_experience = "4 ans 5 mois"

\* the document of a user without experience, and of one whose dates do
\* not parse
C21_NotApplicable ==
    /\ pc = "done"
    /\ response.status = 200
    /\ experiencesData \in {<<>>, <<ExpDateless>>}
    /\ dataForTemplate.total_experience = "N/A"

(***************************************************************************)
(* C22: when some experiences carry unparseable dates and others valid     *)
(* ones, total_experience is the tenure envelope over the valid dates      *)
(* only: an invalid date is left out of the minimum and of the maximum and *)
(* does not turn the total into "N/A" or into an invalid value.  The code  *)
(* departs from it: one unparseable start date leaves the total at "N/A"   *)
(* (line 198), and one unparseable end date makes line 201 throw.          *)
(***************************************************************************)
Mixed(experiences) ==
    /\ HasUnparseableDate(experiences)
    /\ \E i \in 1..Len(experiences) :
          /\ experiences[i].startdate.kind = "date"
          /\ experiences[i].enddate.kind \in {"date", "null"}

ValidStarts(experiences) ==
    {NewDate(experiences[i].startdate) : i \in 1..Len(experiences)} \ {NaN}

ValidEnds(experiences) ==
    {EffectiveEnd(experiences[i]) : i \in 1..Len(experiences)} \ {NaN}

ValidEnvelopeSpan(experiences) ==
    DurationSpan(SetMin(ValidStarts(experiences)), SetMax(ValidEnds(experiences)))

C22_Original ==
    Mixed(experiencesData) =>
        /\ failure.step # "aggregate"
        /\ locals.done =>
              locals.total_experience =
                  TenureText(ValidEnvelopeSpan(experiencesData).years,
                             ValidEnvelopeSpan(experiencesData).months)

\* an experience whose start date does not parse, beside one from
\* 2021-03-01 to now: the document shows "N/A", not "3 ans 3 mois"
C22_Witness ==
    /\ pc = "done"
    /\ response.status = 200
    /\ tz = 0
    /\ experiencesData = <<ExpUndated, ExpArchitect>>
    /\ TenureText(ValidEnvelopeSpan(experiencesData).years,
                  ValidEnvelopeSpan(experiencesData).months) = "3 ans 3 mois"
    /\ dataForTemplate.total_experience = "N/A"

\* an unparseable end date beside a valid experience: no total at all
C22_Thrown ==
    /\ pc = "done"
    /\ experiencesData = <<ExpEndless, ExpArchitect>>
    /\ failure = Failed("aggregate", "Invalid time value")
    /\ response.status = 500

(***************************************************************************)
(* C23: domain_expertise_rows has exactly one row per distinct pair        *)
(* (family name, skill name) over the experience-skill links whose skill   *)
(* has a family, and no row for a skill without family; the tenure of a    *)
(* row is that of the last experience, in the order of the read, that      *)
(* references the pair; the rows of one domain are contiguous.             *)
(***************************************************************************)
\* the links of the experiences: <<k, j>> is link j of experience k
LinkIdx(experiences) ==
    UNION {{<<k, j>> : j \in 1..Len(experiences[k].experience_skills)} :
               k \in 1..Len(experiences)}

LinkAt(experiences, l) == experiences[l[1]].experience_skills[l[2]].skills

FamilyLinks(experiences) ==
    {l \in LinkIdx(experiences) :
        ~LinkAt(experiences, l).isNull /\ LinkAt(experiences, l).hasFamily}

FamilyPairs(experiences) ==
    {<<LinkAt(experiences, l).family, LinkAt(experiences, l).name>> :
        l \in FamilyLinks(experiences)}

\* the last experience that references the pair
LastReferencing(experiences, pair) ==
    SetMax({l[1] : l \in {m \in FamilyLinks(experiences) :
                            <<LinkAt(experiences, m).family,
                              LinkAt(experiences, m).name>> = pair}})

TenureOf(exp) == calculateDuration(exp.startdate, exp.enddate)

Contiguous(rows) ==
    \A i, j, k \in 1..Len(rows) :
        (i < j /\ j < k /\ rows[i].domain = rows[k].domain) => rows[j].domain = rows[i].domain

C23_DomainExpertise ==
    locals.done =>
        LET rows == locals.domain_expertise_rows
        IN  /\ {<<rows[i].domain, rows[i].specific_area>> : i \in 1..Len(rows)}
                  = FamilyPairs(experiencesData)
            /\ Len(rows) = Cardinality(FamilyPairs(experiencesData))
            /\ \A i \in 1..Len(rows) :
                  rows[i].experience_yrs_months =
                      TenureOf(experiencesData[
                          LastReferencing(experiencesData,
                                          <<rows[i].domain, rows[i].specific_area>>)])
            /\ Contiguous(rows)

\* AWS is referenced by the experience since 2021-03 and by that of 2019-01
\* to 2020-06, read in this order: its row carries "1 an 5 mois"; Scrum and
\* Docker, without family, have no row
C23_Witness ==
    /\ pc = "done"
    /\ response.status = 200
    /\ tz = 0
    /\ experiencesData = <<ExpArchitect, ExpDeveloper>>
    /\ dataForTemplate.domain_expertise_rows =
          <<[domain |-> "Cloud", specific_area |-> "AWS", experience_yrs_months |-> "1 an 5 mois"],
            [domain |-> "Languages", specific_area |-> "Java", experience_yrs_months |-> "1 an 5 mois"],
            [domain |-> "Languages", specific_area |-> "SQL", experience_yrs_months |-> "1 an 5 mois"]>>

\* links entered as Java, AWS, SQL: the two rows of Languages come together
C23_Grouped ==
    /\ locals.done
    /\ experiencesData = <<ExpDeveloper>>
    /\ [i \in 1..3 |-> locals.domain_expertise_rows[i].specific_area] = <<"Java", "SQL", "AWS">>

(***************************************************************************)
(* C24: technical_expertise_primary_skills lists each skill name of kind   *)
(* technical (type 'hard') referenced by some experience exactly once, and *)
(* no skill of another kind; the tenure of an entry is that of the first   *)
(* experience, in the order of the read, that references the skill, and a  *)
(* later experience never changes it.                                      *)
(***************************************************************************)
HardLinks(experiences) ==
    {l \in LinkIdx(experiences) :
        ~LinkAt(experiences, l).isNull /\ LinkAt(experiences, l).type = "hard"}

HardNames(experiences) == {LinkAt(experiences, l).name : l \in HardLinks(experiences)}

\* the first experience that references the skill
FirstReferencing(experiences, name) ==
    SetMin({l[1] : l \in {m \in HardLinks(experiences) : LinkAt(experiences, m).name = name}})

C24_TechnicalExpertise ==
    locals.done =>
        LET list == locals.technical_expertise_primary_skills
        IN  /\ {list[i].skill_name : i \in 1..Len(list)} = HardNames(experiencesData)
            /\ Len(list) = Cardinality(HardNames(experiencesData))
            /\ \A i \in 1..Len(list) :
                  list[i].experience_yrs_months =
                      TenureOf(experiencesData[FirstReferencing(experiencesData,
                                                                list[i].skill_name)])

\* AWS is referenced by the experience since 2021-03 and then by that of
\* 2019-01 to 2020-06: its entry keeps "3 ans 3 mois"; Scrum, of type
\* 'soft', is not listed
C24_Witness ==
    /\ pc = "done"
    /\ response.status = 200
    /\ tz = 0
    /\ experiencesData = <<ExpArchitect, ExpDeveloper>>
    /\ dataForTemplate.technical_expertise_primary_skills =
          <<[skill_name |-> "AWS", experience_yrs_months |-> "3 ans 3 mois"],
            [skill_name |-> "Java", experience_yrs_months |-> "1 an 5 mois"],
            [skill_name |-> "SQL", experience_yrs_months |-> "1 an 5 mois"],
            [skill_name |-> "Docker", experience_yrs_months |-> "1 an 5 mois"]>>

(***************************************************************************)
(* C25: professional_activities_rows is the union of one row per           *)
(* certification record of the certifications read, one row per training   *)
(* nested under a user-skill record, and one synthetic row per user-skill  *)
(* flagged hascertification; its length is the sum of the three counts and *)
(* no row is dropped or merged.  As stated, for the trainings of every     *)
(* user-skill, it does not hold: line 283 takes the trainings of the       *)
(* user-skills flagged hastrainings only.                                  *)
(***************************************************************************)
\* <<i, j>>: training j of user-skill i
TrainingIdx ==
    UNION {{<<i, j>> : j \in 1..Len(userSkillsData[i].trainings)} :
               i \in 1..Len(userSkillsData)}

FlaggedTrainingIdx == {t \in TrainingIdx : userSkillsData[t[1]].hastrainings}

\* the records a row is made from, and the row of each
ActivitySources ==
    {<<"certification", i, 0>> : i \in 1..Len(certificationsData)}
        \cup {<<"training", t[1], t[2]>> : t \in FlaggedTrainingIdx}
        \cup {<<"user skill", i, 0>> : i \in Flagged}

RowOf(source) ==
    CASE source[1] = "certification" ->
            [course_certification_name |-> certificationsData[source[2]].name,
             institution |-> "N/A (Certification)",
             year |-> YearOf(certificationsData[source[2]].date),
             years_of_experience |-> ""]
      [] source[1] = "training" ->
            LET training == userSkillsData[source[2]].trainings[source[3]]
            IN  [course_certification_name |-> training.name,
                 institution |-> IF training.provider = "" THEN "N/A" ELSE training.provider,
                 year |-> YearOf(training.date),
                 years_of_experience |-> ""]
      [] OTHER ->
            [course_certification_name |-> RecordedOrSkillName(userSkillsData[source[2]]),
             institution |-> "N/A (via User Skill)",
             year |-> YearOf(userSkillsData[source[2]].certificationdate),
             years_of_experience |-> ""]

\* C25 with the trainings of the flagged user-skills: the rows are, as a
\* bag, the rows of the sources
C25_Amended ==
    locals.done =>
        \A listed \in {{<<k, locals.professional_activities_rows[k]>> :
                            k \in 1..Len(locals.professional_activities_rows)}},
           made \in {{<<x, RowOf(x)>> : x \in ActivitySources}} :
            /\ Cardinality(listed) = Len(certificationsData) + Cardinality(FlaggedTrainingIdx)
                                       + Cardinality(Flagged)
            /\ \A r \in {l[2] : l \in listed} \cup {m[2] : m \in made} :
                  Cardinality({l \in listed : l[2] = r}) = Cardinality({m \in made : m[2] = r})

\* C25 as stated: every nested training has its row
C25_Original ==
    locals.done =>
        Len(locals.professional_activities_rows)
          = Len(certificationsData) + Cardinality(TrainingIdx) + Cardinality(Flagged)

\* a user-skill that is not flagged hastrainings and has a training: the
\* only row of the document is the synthetic one
C25_Witness ==
    /\ pc = "done"
    /\ response.status = 200
    /\ Len(userSkillsData) = 1
    /\ ~userSkillsData[1].hastrainings
    /\ userSkillsData[1].trainings = <<Training1>>
    /\ userSkillsData[1].hascertification
    /\ certificationsData = <<>>
    /\ Len(dataForTemplate.professional_activities_rows) = 1
    /\ dataForTemplate.professional_activities_rows[1].institution = "N/A (via User Skill)"

\* a certification record, two trainings and two synthetic rows: five rows
C25_AllThree ==
    /\ locals.done
    /\ Len(certificationsData) = 1
    /\ Cardinality(FlaggedTrainingIdx) = 2
    /\ Cardinality(Flagged) = 2
    /\ Len(locals.professional_activities_rows) = 5

(***************************************************************************)
(* C26: a torn read ends in the affected row being skipped.  An            *)
(* experience-skill link whose skill (or skill family) is null contributes *)
(* no row to domain_expertise_rows or technical_expertise_primary_skills,  *)
(* a user-skill whose skill is null still yields its rows, and the request *)
(* does not fail.  As stated it does not hold for the skill family: line   *)
(* 254 looks at the skill and its type only, and a technical skill without *)
(* family is listed in technical_expertise_primary_skills.                 *)
(***************************************************************************)
TornLinks(experiences) ==
    {l \in LinkIdx(experiences) : LinkAt(experiences, l).isNull}

FamilyLess(experiences) ==
    {l \in LinkIdx(experiences) :
        ~LinkAt(experiences, l).isNull /\ ~LinkAt(experiences, l).hasFamily}

TornUserSkills == {i \in 1..Len(userSkillsData) : userSkillsData[i].skills.isNull}

TornRead ==
    \/ TornLinks(experiencesData) \cup FamilyLess(experiencesData) # {}
    \/ TornUserSkills # {}

\* every domain row comes from a link of links
DomainRowsFrom(links) ==
    \A i \in 1..Len(locals.domain_expertise_rows) :
        \E l \in links :
            /\ LinkAt(experiencesData, l).family = locals.domain_expertise_rows[i].domain
            /\ LinkAt(experiencesData, l).name = locals.domain_expertise_rows[i].specific_area

\* every technical entry comes from a link of links
TechnicalFrom(links) ==
    \A i \in 1..Len(locals.technical_expertise_primary_skills) :
        \E l \in links :
            /\ LinkAt(experiencesData, l).type = "hard"
            /\ LinkAt(experiencesData, l).name
                 = locals.technical_expertise_primary_skills[i].skill_name

\* the request goes on to its document
NotFailing ==
    /\ failure.step \notin {"aggregate", "buildData"}
    /\ (pc = "done" /\ failure = NoFailure) => response.status = 200

\* the trainings and the synthetic row of a user-skill without skill
TornUserSkillRows ==
    \A x \in ActivitySources :
        (x[1] # "certification" /\ x[2] \in TornUserSkills) =>
            \E k \in 1..Len(locals.professional_activities_rows) :
                locals.professional_activities_rows[k] = RowOf(x)

\* C26 with the skill family looked at by the domain table only
C26_Amended ==
    /\ TornRead => NotFailing
    /\ locals.done =>
          /\ DomainRowsFrom(LinkIdx(experiencesData)
                              \ (TornLinks(experiencesData) \cup FamilyLess(experiencesData)))
          /\ TechnicalFrom(LinkIdx(experiencesData) \ TornLinks(experiencesData))
          /\ \A l \in FamilyLess(experiencesData) :
                LinkAt(experiencesData, l).type = "hard" =>
                    \E i \in 1..Len(locals.technical_expertise_primary_skills) :
                        locals.technical_expertise_primary_skills[i].skill_name
                          = LinkAt(experiencesData, l).name
          /\ TornUserSkillRows

\* C26 as stated: no technical entry comes from a link without family
C26_Original ==
    /\ TornRead => NotFailing
    /\ locals.done =>
          /\ DomainRowsFrom(LinkIdx(experiencesData)
                              \ (TornLinks(experiencesData) \cup FamilyLess(experiencesData)))
          /\ TechnicalFrom(LinkIdx(experiencesData)
                              \ (TornLinks(experiencesData) \cup FamilyLess(experiencesData)))
          /\ TornUserSkillRows

\* a link without skill, the technical skill Docker without family, and a
\* certified user-skill without skill: three domain rows, Docker listed,
\* the synthetic row "Unnamed Certification", and the document
C26_Witness ==
    /\ pc = "done"
    /\ response.status = 200
    /\ experiencesData = <<ExpDeveloper>>
    /\ TornLinks(experiencesData) # {}
    /\ Len(userSkillsData) = 1 /\ TornUserSkills = {1}
    /\ Len(dataForTemplate.domain_expertise_rows) = 3
    /\ [i \in 1..4 |-> dataForTemplate.technical_expertise_primary_skills[i].skill_name]
          = <<"Java", "AWS", "SQL", "Docker">>
    /\ \E k \in 1..Len(dataForTemplate.professional_activities_rows) :
          dataForTemplate.professional_activities_rows[k].course_certification_name
            = "Unnamed Certification"

(***************************************************************************)
(* C27: every invocation of the handler ends with exactly one response,    *)
(* of status 200, 400, 404 or 500; an exception raised after the parameter *)
(* check by a read, by the aggregation or by the generation of the         *)
(* document becomes the 500 JSON response of a catch block and does not    *)
(* leave the handler.                                                      *)
(***************************************************************************)
\* the steps whose failure is an exception caught at line 395
Thrown ==
    \/ failure.step \in {"experiences", "user_skills", "certifications", "aggregate",
                         "buildData", "generate"}
    \/ failure.step = "template" /\ template = "corrupt"

Responded == response # NoResponse

C27_OneResponse ==
    /\ <>(pc = "done")
    /\ [](Responded <=> pc = "done")
    /\ [](Responded => response.status \in {200, 400, 404, 500})
    /\ [][Responded => response' = response]_vars
    /\ [](Thrown => response = Caught(failure.message))
    /\ [](failure.step = "render" =>
            /\ response.status = 500
            /\ response.error = "Failed to render CV document.")

\* the DXC experience whose start date does not parse: the RangeError of
\* line 84, raised at line 349, is answered by the catch of line 395
C27_Witness ==
    /\ pc = "done"
    /\ experiencesData = <<ExpUndatedDXC>>
    /\ failure = Failed("buildData", "Invalid time value")
    /\ response = [status |-> 500, error |-> "Failed to generate CV.", details |-> "message",
                   message |-> "Invalid time value", list |-> <<>>]

(***************************************************************************)
(* C28: the experiences are read most recently started first, so for a     *)
(* skill referenced by several experiences the technical skill list        *)
(* carries the tenure of the most recently started experience that         *)
(* references it and the domain table that of the earliest started one;    *)
(* the two tables of one document can show different tenures for the same  *)
(* skill, and neither shows the tenure accumulated over the experiences    *)
(* that reference it.                                                      *)
(***************************************************************************)
\* the names of the technical skills an experience references (line 254)
\* and the family and name of the skills with a family (line 230)
TechnicalNamesOf(exp) ==
    {exp.experience_skills[j].skills.name :
        j \in {i \in 1..Len(exp.experience_skills) :
                  /\ ~exp.experience_skills[i].skills.isNull
                  /\ exp.experience_skills[i].skills.type = "hard"}}

FamilyPairsOf(exp) ==
    {<<exp.experience_skills[j].skills.family, exp.experience_skills[j].skills.name>> :
        j \in {i \in 1..Len(exp.experience_skills) :
                  /\ ~exp.experience_skills[i].skills.isNull
                  /\ exp.experience_skills[i].skills.hasFamily}}

\* what the two tables can show of experience k: its start, its tenure as a
\* text and in months, and the skills it references
ExperienceFacts ==
    {[k |-> k,
      start |-> NewDate(experiencesData[k].startdate),
      tenure |-> TenureOf(experiencesData[k]),
      months |-> Apply(LAMBDA span : span.years * 12 + span.months,
                       ExperienceSpan(experiencesData[k])),
      technical |-> TechnicalNamesOf(experiencesData[k]),
      pairs |-> FamilyPairsOf(experiencesData[k])] :
        k \in 1..Len(experiencesData)}

RECURSIVE SumMonths(_)
SumMonths(facts) ==
    IF facts = {} THEN 0
    ELSE LET f == CHOOSE x \in facts : TRUE IN f.months + SumMonths(facts \ {f})

\* the tenure accumulated over several experiences
Accumulated(facts) ==
    Apply(LAMBDA total : TenureText(total \div 12, total % 12), SumMonths(facts))

\* several experiences, each of a month at least
Several(facts) == Cardinality(facts) >= 2 /\ \A f \in facts : f.months >= 1

C28_TwoTenures ==
    locals.done =>
        \A facts \in {ExperienceFacts} :
            /\ \A i \in 1..Len(locals.technical_expertise_primary_skills) :
                  \A entry \in {locals.technical_expertise_primary_skills[i]} :
                  \A refs \in {{f \in facts : entry.skill_name \in f.technical}} :
                      /\ \E f \in refs :
                            /\ \A g \in refs : f.start >= g.start
                            /\ entry.experience_yrs_months = f.tenure
                      /\ Several(refs) => entry.experience_yrs_months # Accumulated(refs)
            /\ \A i \in 1..Len(locals.domain_expertise_rows) :
                  \A row \in {locals.domain_expertise_rows[i]} :
                  \A refs \in {{f \in facts : <<row.domain, row.specific_area>> \in f.pairs}} :
                      /\ \E f \in refs :
                            /\ \A g \in refs : f.start <= g.start
                            /\ row.experience_yrs_months = f.tenure
                      /\ Several(refs) => row.experience_yrs_months # Accumulated(refs)

\* AWS, referenced by the experience since 2021-03 and by that of 2019-01 to
\* 2020-06: "3 ans 3 mois" among the technical skills, "1 an 5 mois" in the
\* domain table, and "4 ans 8 mois" nowhere
C28_Witness ==
    /\ pc = "done"
    /\ response.status = 200
    /\ tz = 0
    /\ experiencesData = <<ExpArchitect, ExpDeveloper>>
    /\ \A f \in ExperienceFacts : "AWS" \in f.technical /\ <<"Cloud", "AWS">> \in f.pairs
    /\ Accumulated(ExperienceFacts) = "4 ans 8 mois"
    /\ dataForTemplate.technical_expertise_primary_skills[1] =
          [skill_name |-> "AWS", experience_yrs_months |-> "3 ans 3 mois"]
    /\ dataForTemplate.domain_expertise_rows[1] =
          [domain |-> "Cloud", specific_area |-> "AWS", experience_yrs_months |-> "1 an 5 mois"]

(***************************************************************************)
(* C29: when the reads have succeeded and the template file is absent, the *)
(* handler answers 404 "Template file not found." once the aggregation has *)
(* run and without a call of the renderer; a 404 is answered either for a  *)
(* user that was not found or for a user that was found and a template     *)
(* that was not.                                                           *)
(***************************************************************************)
CallsOf(op) == Len(SelectSeq(calls, LAMBDA c : c.op = op))

C29_TemplateNotFound ==
    /\ template = "missing" =>
          /\ pc = "done"
          /\ response = Json(404, "Template file not found.")
          /\ userData.found
          /\ CallsOf("users") >= 1 /\ CallsOf("experiences") >= 1
          /\ CallsOf("user_skills") >= 1
          /\ userSkillsData # <<>> => CallsOf("certifications") >= 1
          /\ locals.done
          /\ ~dataForTemplate.built
          /\ CallsOf("render") = 0
    /\ response.status = 404 =>
          \/ ~userData.found /\ template = "unknown" /\ ~locals.done
                /\ response.error = "User not found or error fetching user data."
          \/ userData.found /\ template = "missing"

\* a user with experiences, skills and a certification, all read and
\* aggregated, and a 404 for the template
C29_Witness ==
    /\ pc = "done"
    /\ response.status = 404
    /\ response.error = "Template file not found."
    /\ userData.found
    /\ experiencesData # <<>> /\ userSkillsData # <<>> /\ certificationsData # <<>>
    /\ CallsOf("certifications") = 1
    /\ locals.done
    /\ Len(locals.professional_activities_rows) >= 2
    /\ CallsOf("render") = 0

(***************************************************************************)
(* C30: AuthProvider.  Once the listener has handled an event without      *)
(* session, and as long as it handles no event with a session, user is     *)
(* null and isAdmin is false, whatever call of fetchUser completes in the  *)
(* meantime; and isAdmin is true only while user is a user of role admin.  *)
(***************************************************************************)
C30_SignedOut ==
    lastEvent = "noSession" => authContext.user = NoUser /\ ~authContext.isAdmin

C30_AdminIsUser ==
    authContext.isAdmin => ~authContext.user.isNull /\ authContext.user.role = "admin"

C30_Original == C30_SignedOut /\ C30_AdminIsUser

\* the call of fetchUser made by the effect got the user a1 from getUser,
\* the listener handled the sign-out, and the read of the users row came
\* back afterwards: the provider shows an administrator
C30_Witness ==
    /\ subscribed
    /\ lastEvent = "noSession"
    /\ session = NoSession
    /\ fetchUsers = <<FetchUser("done", "a1")>>
    /\ authContext.user = MappedUserData("a1")
    /\ authContext.isAdmin

====
